---- MODULE Spec2Model ----
(***************************************************************************)
(* The conversation tree engine of brunch: nodes (RootNode and             *)
(* MessagePairNode) live in a heap of records addressed by integer ids     *)
(* (Go pointers), a chat instance owns one embedded root and a cursor,     *)
(* the provider extends the tree, marshalNode / unmarshalNode turn the     *)
(* tree into a hash-indexed nested document and back, and a Snapshot       *)
(* carries that document together with the hash of the cursor.             *)
(*                                                                         *)
(* Strings are sequences of small integers ("" is << >>).  A nil pointer   *)
(* to a node is 0; a nil *MessageData is << >> and a set one is <<m>>.     *)
(* The image queue (queuedImages / pendingImages / MessageData.Images) is  *)
(* not part of the modelled state: it never enters a hash, a children      *)
(* list, a parent reference or the cursor.                                 *)
(***************************************************************************)
EXTENDS Integers, Sequences, FiniteSets, TLC

VARIABLES heap, cursor, chatEnabled, clock, op,
          providers, providerStore, sessions, activeChats, chatStore,
          instances, mutex, proc, baseProviders, contexts, contextStore

\* the chat instance in use and its clock
chatVars == <<heap, cursor, chatEnabled, clock>>

\* the core: its maps, its stores on disk, the chat instances it has
\* built, its mutexes and the goroutines that run its statements
coreVars == <<providers, providerStore, sessions, activeChats, chatStore,
              instances, mutex, proc, baseProviders, contexts, contextStore>>

vars == <<chatVars, op, coreVars>>

(***************************************************************************)
(* Bounds of the model.                                                    *)
(***************************************************************************)
\* message pair nodes a chat may hold (complete or not)
MaxNodes == 2
\* the seconds the wall clock shows while the chat is in use
Seconds == {0, 1}

\* user messages and provider responses
Questions == {<<1>>}
Responses == {<<1>>}
\* providers registered in core.providers
Providers == {"anthropic"}

(***************************************************************************)
(* Strings, encodings and digests.                                         *)
(***************************************************************************)
\* hex.EncodeToString(sha256.Sum) always has the same length
HashLen == 4

HasPrefix(s, p) == Len(p) <= Len(s) /\ SubSeq(s, 1, Len(p)) = p

\* base64.StdEncoding.EncodeToString
B64Encode(s) == [i \in 1..Len(s) |-> 100 + s[i]]

B64Valid(s) == \A i \in 1..Len(s) : s[i] >= 100

\* base64.StdEncoding.DecodeString
B64Decode(s) == [i \in 1..Len(s) |-> s[i] - 100]

\* sha256 + hex: a fixed-width, collision-free image of the hashed string
Digest(s) == s \o [i \in 1..(HashLen - Len(s)) |-> 0]

\* strconv.FormatFloat(t, 'f', -1, 64) for a temperature given in tenths
FormatFloat(t) == <<t>>

\* strconv.Itoa for a token limit given in thousands
Itoa(n) == <<n>>

\* time.Format(time.RFC3339): the instant to the second
FormatTime(t) == <<10 + t>>

(***************************************************************************)
(* Node model.                                                             *)
(***************************************************************************)
NewRootNode(opts) ==
    [Type |-> "root", Parent |-> 0, Children |-> <<>>,
     Provider |-> opts.Provider, Model |-> opts.Model, Prompt |-> opts.Prompt,
     Temperature |-> opts.Temperature, MaxTokens |-> opts.MaxTokens]

\* the root the anthropic provider hands out for a new conversation
NewConversationRoot ==
    NewRootNode([Provider |-> <<3>>, Model |-> <<>>, Prompt |-> <<>>,
                 Temperature |-> 7, MaxTokens |-> 4])

NewMessagePairNode(parent, now) ==
    [Type |-> "message_pair", Parent |-> parent, Children |-> <<>>,
     Assistant |-> <<>>, User |-> <<>>, Time |-> now]

NewMessageData(role, unencodedContent) ==
    [Role |-> role, B64EncodedContent |-> B64Encode(unencodedContent),
     RawContent |-> unencodedContent]

UnencodedContent(m) ==
    IF m.RawContent # <<>> THEN m.RawContent
    ELSE IF B64Valid(m.B64EncodedContent) THEN B64Decode(m.B64EncodedContent)
    ELSE m.B64EncodedContent

RootHash(r) ==
    Digest(r.Provider \o r.Model \o r.Prompt \o FormatFloat(r.Temperature)
           \o Itoa(r.MaxTokens))

\* the variant of MessagePairNode.Hash that is empty only when neither
\* message is set
PairHashAnySet(m) ==
    IF m.Assistant = <<>> /\ m.User = <<>> THEN <<>>
    ELSE Digest((IF m.Assistant = <<>> THEN <<>>
                 ELSE UnencodedContent(m.Assistant[1]))
                \o (IF m.User = <<>> THEN <<>>
                    ELSE UnencodedContent(m.User[1]))
                \o FormatTime(m.Time))

\* MessagePairNode.Hash
PairHash(m) ==
    IF m.Assistant = <<>> \/ m.User = <<>> THEN <<>>
    ELSE Digest(UnencodedContent(m.Assistant[1]) \o UnencodedContent(m.User[1])
                \o FormatTime(m.Time))

\* Node.Hash()
Hash(n) == IF n.Type = "root" THEN RootHash(n) ELSE PairHash(n)

\* the variant AddChild that puts the child first
AddChildFront(h, p, c) == [h EXCEPT ![p].Children = <<c>> \o @]

\* node.AddChild: append c to the children of p
AddChild(h, p, c) == [h EXCEPT ![p].Children = Append(@, c)]

Max(S) == CHOOSE x \in S : \A y \in S : y <= x

\* node.ToMap: the children keyed by hash, a later child replacing an
\* earlier one with the same hash
ToMap(h, id) ==
    LET cs == h[id].Children
        keys == {Hash(h[cs[i]]) : i \in DOMAIN cs}
    IN [k \in keys |-> cs[Max({i \in DOMAIN cs : Hash(h[cs[i]]) = k})]]

RECURSIVE Preorder(_, _)
RECURSIVE PreorderAll(_, _, _)
\* the nodes of the subtree of id in the order MapTree visits them: the
\* node, then the subtree of each child in turn
Preorder(h, id) == <<id>> \o PreorderAll(h, h[id].Children, 1)

PreorderAll(h, cs, i) ==
    IF i > Len(cs) THEN <<>>
    ELSE Preorder(h, cs[i]) \o PreorderAll(h, cs, i + 1)

\* MapTree: hash -> node over the subtree of id.  A node with the empty
\* hash is left out; the map of a child is copied over the entries written
\* before it, so the node visited last owns a hash
MapTree(h, id) ==
    LET order == Preorder(h, id)
        keys == {Hash(h[order[i]]) : i \in DOMAIN order} \ {<<>>}
    IN [k \in keys |->
          order[Max({i \in DOMAIN order : Hash(h[order[i]]) = k})]]

RECURSIVE Subtree(_, _)
\* the ids reachable from id by following Children
Subtree(h, id) ==
    {id} \cup UNION {Subtree(h, h[id].Children[i]) : i \in DOMAIN h[id].Children}

(***************************************************************************)
(* Tree serialization.  A document is                                      *)
(*   [node_data |-> fields, children |-> [hash -> document]].              *)
(***************************************************************************)
\* MessageData.MarshalJSON (a nil message is null)
MarshalMessage(m) ==
    IF m = <<>> THEN <<>>
    ELSE <<[role |-> m[1].Role, content |-> UnencodedContent(m[1])]>>

\* MessageData.UnmarshalJSON
UnmarshalMessage(j) ==
    IF j = <<>> THEN <<>>
    ELSE <<[Role |-> j[1].role, B64EncodedContent |-> B64Encode(j[1].content),
            RawContent |-> j[1].content]>>

\* nodeDataRoot / nodeDataMessagePair
NodeData(n) ==
    IF n.Type = "root"
    THEN [type |-> "root", provider |-> n.Provider, model |-> n.Model,
          prompt |-> n.Prompt, temperature |-> n.Temperature,
          max_tokens |-> n.MaxTokens]
    ELSE [type |-> "message_pair", assistant |-> MarshalMessage(n.Assistant),
          user |-> MarshalMessage(n.User), time |-> n.Time]

RECURSIVE marshalNode(_, _)
\* marshalNode: the children are taken from ToMap
marshalNode(h, id) ==
    LET m == ToMap(h, id)
    IN [node_data |-> NodeData(h[id]),
        children |-> [k \in DOMAIN m |-> marshalNode(h, m[k])]]

\* the node unmarshalNode builds from node_data, before its children
NodeFromData(d) ==
    IF d.type = "root"
    THEN NewRootNode([Provider |-> d.provider, Model |-> d.model,
                      Prompt |-> d.prompt, Temperature |-> d.temperature,
                      MaxTokens |-> d.max_tokens])
    ELSE [NewMessagePairNode(0, 0) EXCEPT
              !.Assistant = UnmarshalMessage(d.assistant),
              !.User = UnmarshalMessage(d.user),
              !.Time = d.time]

\* a group of nodes moved d places up the heap
Shift(frag, d) ==
    [i \in DOMAIN frag |->
        [frag[i] EXCEPT !.Parent = IF @ = 0 THEN 0 ELSE @ + d,
                        !.Children = [j \in DOMAIN @ |-> @[j] + d]]]

\* the variant of Adopt that leaves the parent of the child unset
AdoptNoParent(frag, sub) ==
    [frag EXCEPT ![1].Children = Append(@, Len(frag) + 1)]
        \o Shift(sub, Len(frag))

\* unmarshalNode, "Set parent-child relationships": the decoded child sub
\* becomes the next child of the node frag[1] and gets it as parent
Adopt(frag, sub) ==
    [frag EXCEPT ![1].Children = Append(@, Len(frag) + 1)]
        \o [Shift(sub, Len(frag)) EXCEPT ![1].Parent = 1]

\* the orders in which a range over a Go map may visit the keys S
Orders(S) ==
    {f \in [1..Cardinality(S) -> S] : \A i, j \in DOMAIN f : f[i] = f[j] => i = j}

\* a JSON value json.Unmarshal rejects for a number or a time (a string in
\* place of a number, a string that is no RFC3339 instant); the numbers
\* and instants of the model are all naturals
Malformed == -1

\* json.Unmarshal of node_data into rootData / msgData succeeds
FieldsDecode(d) ==
    IF d.type = "root"
    THEN d.temperature # Malformed /\ d.max_tokens # Malformed
    ELSE d.time # Malformed

RECURSIVE unmarshalNode(_)
RECURSIVE unmarshalChildren(_, _, _)
RECURSIVE unmarshalChildrenLenient(_, _, _)
\* unmarshalNode: every tree the decoder can return for doc, as a group of
\* nodes whose first is the decoded node; no tree when decoding fails
unmarshalNode(doc) ==
    IF doc.node_data.type \notin {"root", "message_pair"} THEN {}
    ELSE IF ~FieldsDecode(doc.node_data) THEN {}
    ELSE UNION {unmarshalChildren(doc, ord, Len(ord)) :
                    ord \in Orders(DOMAIN doc.children)}

\* the variant of unmarshalChildren that leaves out a child it cannot decode
unmarshalChildrenLenient(doc, ord, k) ==
    IF k = 0 THEN {<<NodeFromData(doc.node_data)>>}
    ELSE IF unmarshalNode(doc.children[ord[k]]) = {}
    THEN unmarshalChildrenLenient(doc, ord, k - 1)
    ELSE {Adopt(f, s) : f \in unmarshalChildrenLenient(doc, ord, k - 1),
                        s \in unmarshalNode(doc.children[ord[k]])}

\* the decoded node with the children ord[1..k] decoded and attached; the
\* failure of one child is the failure of the whole
unmarshalChildren(doc, ord, k) ==
    IF k = 0 THEN {<<NodeFromData(doc.node_data)>>}
    ELSE {Adopt(f, s) : f \in unmarshalChildren(doc, ord, k - 1),
                        s \in unmarshalNode(doc.children[ord[k]])}

(***************************************************************************)
(* The chat instance embeds its root at a fixed address; a restore leaves  *)
(* the root the decoder allocated right behind it.                         *)
(***************************************************************************)
ChatRoot == 1

DecodedRoot == 2

\* op is the call that has just run (name, argument, error) until the
\* caller has taken its result; no call is pending in Idle
Idle == [name |-> "idle", arg |-> <<>>, err |-> "none"]

\* the provider the core is given as base provider; a temperature is a
\* number of tenths
BaseProvider ==
    [Name |-> "anthropic", Host |-> "anthropic", MaxTokens |-> 4,
     Temperature |-> 7]

\* sync.Mutex fields of the core
Mutexes == {"provMu", "sesMu", "chatMu", "ctxMu"}

\* the goroutines that call into the core, one per session id
Sessions == {"s1", "s2"}

\* a goroutine between two calls: the instance the last \chat handed to
\* it (0 for none) and the providers its statements have created
Between(chat, made) == [pc |-> "idle", chat |-> chat, made |-> made]

\* newChatInstance, for a chat that is used without a core, as the REPL
\* uses it
Init ==
    /\ heap = <<NewConversationRoot>>
    /\ cursor = ChatRoot
    /\ chatEnabled = TRUE
    /\ clock = 0
    /\ op = Idle
    /\ providers = <<>>
    /\ providerStore = <<>>
    /\ sessions = <<>>
    /\ activeChats = <<>>
    /\ chatStore = <<>>
    /\ instances = <<>>
    /\ mutex = <<>>
    /\ proc = <<>>
    /\ baseProviders = <<>>
    /\ contexts = <<>>
    /\ contextStore = <<>>

\* NewCore with the anthropic provider as base provider, in an empty
\* install directory; no goroutine has called the core
InitCore ==
    /\ heap = <<NewConversationRoot>>
    /\ cursor = ChatRoot
    /\ chatEnabled = TRUE
    /\ clock = 0
    /\ op = Idle
    /\ providers = [n \in {"anthropic"} |-> BaseProvider]
    /\ providerStore = <<>>
    /\ sessions = <<>>
    /\ activeChats = <<>>
    /\ chatStore = <<>>
    /\ instances = <<>>
    /\ mutex = [m \in Mutexes |-> "free"]
    /\ proc = [s \in Sessions |-> Between(0, {})]
    /\ baseProviders = [shared |-> TRUE, map |-> <<>>]
    /\ contexts = <<>>
    /\ contextStore = <<>>

\* the caller is free to make the next call
Ready == op = Idle

\* the caller takes the result of the call; a panic ends the process
Return ==
    /\ op # Idle
    /\ op.err # "panic"
    /\ op' = Idle
    /\ UNCHANGED <<heap, cursor, chatEnabled, clock>>
    /\ UNCHANGED coreVars

Pairs(h) == {i \in DOMAIN h : h[i].Type = "message_pair"}

\* time passes
Tick ==
    /\ Ready
    /\ clock + 1 \in Seconds
    /\ clock' = clock + 1
    /\ UNCHANGED <<heap, cursor, chatEnabled, op>>
    /\ UNCHANGED coreVars

\* the variant of ExtendFrom that makes the new pair the only child of node
ExtendFromReplacing(h, node, now) ==
    [Append(h, NewMessagePairNode(node, now)) EXCEPT
         ![node].Children = <<Len(h) + 1>>]

\* AnthropicProvider.ExtendFrom up to the return of the creator: the new
\* pair is allocated and attached to node
ExtendFrom(h, node, now) ==
    AddChild(Append(h, NewMessagePairNode(node, now)), node, Len(h) + 1)

\* the creator returned by ExtendFrom, when the provider answers resp
Creator(h, id, userMessage, resp) ==
    [h EXCEPT ![id].User = <<NewMessageData("user", userMessage)>>,
              ![id].Assistant = <<NewMessageData("assistant", resp)>>]

\* a message as the provider gets it: {"role": ..., "content": ...}
ProviderMessage(m) == [role |-> m.Role, content |-> UnencodedContent(m)]

\* both messages of the pair are set
Complete(n) == n.Assistant # <<>> /\ n.User # <<>>

RECURSIVE GetHistoryFrom(_, _, _)
RECURSIVE GetHistoryFromAppending(_, _, _)
\* the variant of the loop of GetHistory that puts the messages of a pair
\* behind those collected so far
GetHistoryFromAppending(h, current, history) ==
    IF h[current].Type # "message_pair" THEN history
    ELSE LET collected ==
                 IF Complete(h[current])
                 THEN history \o <<ProviderMessage(h[current].Assistant[1]),
                                   ProviderMessage(h[current].User[1])>>
                 ELSE history
         IN IF h[current].Parent # 0
            THEN GetHistoryFromAppending(h, h[current].Parent, collected)
            ELSE collected

\* the loop of AnthropicProvider.GetHistory: the messages of the current
\* pair, assistant first, go in front of those collected so far, and the
\* walk goes on with the parent
GetHistoryFrom(h, current, history) ==
    IF h[current].Type # "message_pair" THEN history
    ELSE LET collected ==
                 IF Complete(h[current])
                 THEN <<ProviderMessage(h[current].Assistant[1]),
                        ProviderMessage(h[current].User[1])>> \o history
                 ELSE history
         IN IF h[current].Parent # 0
            THEN GetHistoryFrom(h, h[current].Parent, collected)
            ELSE collected

\* AnthropicProvider.GetHistory
GetHistory(h, node) == GetHistoryFrom(h, node, <<>>)

\* the variant of SubmitMessage that does not look at chatEnabled
SubmitMessageAlways(message) ==
    /\ Ready
    /\ Cardinality(Pairs(heap)) < MaxNodes
    /\ LET h1 == ExtendFrom(heap, cursor, clock)
           id == Len(heap) + 1
       IN \/ /\ heap' = h1
             /\ cursor' = cursor
             /\ op' = [name |-> "SubmitMessage", arg |-> message,
                       err |-> "provider", history |-> GetHistory(h1, cursor)]
          \/ \E resp \in Responses :
               /\ heap' = Creator(h1, id, message, resp)
               /\ cursor' = id
               /\ op' = [name |-> "SubmitMessage", arg |-> message,
                         err |-> "none", history |-> GetHistory(h1, cursor)]
    /\ UNCHANGED <<chatEnabled, clock>>
    /\ UNCHANGED coreVars

\* chatInstance.SubmitMessage with a provider that answers or fails; with
\* the chat disabled it returns before the provider is asked ("disabled"
\* stands for that return, which carries no error)
SubmitMessage(message) ==
    /\ Ready
    /\ IF ~chatEnabled
       THEN /\ op' = [name |-> "SubmitMessage", arg |-> message, err |-> "disabled"]
            /\ UNCHANGED <<heap, cursor>>
       ELSE /\ Cardinality(Pairs(heap)) < MaxNodes
            /\ LET h1 == ExtendFrom(heap, cursor, clock)
                   id == Len(heap) + 1
               IN \/ /\ heap' = h1
                     /\ cursor' = cursor
                     /\ op' = [name |-> "SubmitMessage", arg |-> message,
                               err |-> "provider",
                               history |-> GetHistory(h1, cursor)]
                  \/ \E resp \in Responses :
                       /\ heap' = Creator(h1, id, message, resp)
                       /\ cursor' = id
                       /\ op' = [name |-> "SubmitMessage", arg |-> message,
                                 err |-> "none",
                                 history |-> GetHistory(h1, cursor)]
    /\ UNCHANGED <<chatEnabled, clock>>
    /\ UNCHANGED coreVars

\* the strings a caller may type as a node address: the hash of a node of
\* the chat, the first half of such a hash, the empty string, and one
\* string that addresses nothing
HashInputs(h) ==
    LET hs == {Hash(h[i]) : i \in DOMAIN h} \ {<<>>}
    IN hs \cup {SubSeq(x, 1, HashLen \div 2) : x \in hs} \cup {<<>>, <<9>>}

\* the variant of Goto that falls back to the root when nothing matches
GotoOrRoot(nodeHash) ==
    /\ Ready
    /\ LET nodeMap == MapTree(heap, ChatRoot)
       IN IF nodeHash \in DOMAIN nodeMap
          THEN /\ cursor' = nodeMap[nodeHash]
               /\ op' = [name |-> "Goto", arg |-> nodeHash, err |-> "none"]
          ELSE /\ cursor' = ChatRoot
               /\ op' = [name |-> "Goto", arg |-> nodeHash, err |-> "node not found"]
    /\ UNCHANGED <<heap, chatEnabled, clock>>
    /\ UNCHANGED coreVars

\* chatInstance.Goto
Goto(nodeHash) ==
    /\ Ready
    /\ LET nodeMap == MapTree(heap, ChatRoot)
       IN IF nodeHash \in DOMAIN nodeMap
          THEN /\ cursor' = nodeMap[nodeHash]
               /\ op' = [name |-> "Goto", arg |-> nodeHash, err |-> "none"]
          ELSE /\ cursor' = cursor
               /\ op' = [name |-> "Goto", arg |-> nodeHash, err |-> "node not found"]
    /\ UNCHANGED <<heap, chatEnabled, clock>>
    /\ UNCHANGED coreVars

\* the variant of Parent that goes up to the root of the chat
ParentToRoot ==
    /\ Ready
    /\ IF heap[cursor].Type = "message_pair"
       THEN IF heap[cursor].Parent # 0
            THEN /\ cursor' = ChatRoot
                 /\ op' = [name |-> "Parent", arg |-> <<>>, err |-> "none"]
            ELSE /\ cursor' = cursor
                 /\ op' = [name |-> "Parent", arg |-> <<>>, err |-> "no parent found"]
       ELSE /\ cursor' = cursor
            /\ op' = [name |-> "Parent", arg |-> <<>>, err |-> "none"]
    /\ UNCHANGED <<heap, chatEnabled, clock>>
    /\ UNCHANGED coreVars

\* chatInstance.Parent
Parent ==
    /\ Ready
    /\ IF heap[cursor].Type = "message_pair"
       THEN IF heap[cursor].Parent # 0
            THEN /\ cursor' = heap[cursor].Parent
                 /\ op' = [name |-> "Parent", arg |-> <<>>, err |-> "none"]
            ELSE /\ cursor' = cursor
                 /\ op' = [name |-> "Parent", arg |-> <<>>, err |-> "no parent found"]
       ELSE /\ cursor' = cursor
            /\ op' = [name |-> "Parent", arg |-> <<>>, err |-> "none"]
    /\ UNCHANGED <<heap, chatEnabled, clock>>
    /\ UNCHANGED coreVars

\* the variant of Child whose bound check accepts idx = len(children)
ChildOffByOne(idx) ==
    /\ Ready
    /\ IF idx <= Len(heap[cursor].Children)
       THEN IF idx < 0 \/ idx = Len(heap[cursor].Children)
            THEN /\ cursor' = cursor
                 /\ op' = [name |-> "Child", arg |-> <<idx>>, err |-> "panic"]
            ELSE /\ cursor' = heap[cursor].Children[idx + 1]
                 /\ op' = [name |-> "Child", arg |-> <<idx>>, err |-> "none"]
       ELSE /\ cursor' = cursor
            /\ op' = [name |-> "Child", arg |-> <<idx>>,
                      err |-> "index out of bounds"]
    /\ UNCHANGED <<heap, chatEnabled, clock>>
    /\ UNCHANGED coreVars

\* chatInstance.Child: both node kinds run the same test; a negative idx
\* passes it and the slice access panics
Child(idx) ==
    /\ Ready
    /\ IF idx < Len(heap[cursor].Children)
       THEN IF idx < 0
            THEN /\ cursor' = cursor
                 /\ op' = [name |-> "Child", arg |-> <<idx>>, err |-> "panic"]
            ELSE /\ cursor' = heap[cursor].Children[idx + 1]
                 /\ op' = [name |-> "Child", arg |-> <<idx>>, err |-> "none"]
       ELSE /\ cursor' = cursor
            /\ op' = [name |-> "Child", arg |-> <<idx>>,
                      err |-> "index out of bounds"]
    /\ UNCHANGED <<heap, chatEnabled, clock>>
    /\ UNCHANGED coreVars

RECURSIVE Top(_, _)
\* AnthropicProvider.GetRoot: the node on which the walk along Parent ends
Top(h, n) == IF h[n].Parent = 0 THEN n ELSE Top(h, h[n].Parent)

\* the variant of Root that walks up from the cursor
RootByParents ==
    /\ Ready
    /\ cursor' = Top(heap, cursor)
    /\ op' = [name |-> "Root", arg |-> <<>>, err |-> "none"]
    /\ UNCHANGED <<heap, chatEnabled, clock>>
    /\ UNCHANGED coreVars

\* chatInstance.Root
Root ==
    /\ Ready
    /\ cursor' = ChatRoot
    /\ op' = [name |-> "Root", arg |-> <<>>, err |-> "none"]
    /\ UNCHANGED <<heap, chatEnabled, clock>>
    /\ UNCHANGED coreVars

\* chatInstance.ToggleChat
ToggleChat(enabled) ==
    /\ Ready
    /\ chatEnabled' = enabled
    /\ op' = [name |-> "ToggleChat", arg |-> <<>>, err |-> "none"]
    /\ UNCHANGED <<heap, cursor, clock>>
    /\ UNCHANGED coreVars

\* chatInstance.Snapshot
Snapshot(h, c) ==
    [ProviderName |-> "anthropic", ActiveBranch |-> Hash(h[c]),
     Contents |-> marshalNode(h, ChatRoot), Contexts |-> <<>>]

\* node_data with a field of the wrong JSON type
Garble(d) ==
    IF d.type = "root" THEN [d EXCEPT !.temperature = Malformed]
    ELSE [d EXCEPT !.time = Malformed]

RECURSIVE Corruptions(_)
\* the documents that differ from doc in one node, which has an unknown
\* type or a malformed field
Corruptions(doc) ==
    {[doc EXCEPT !.node_data.type = "bogus"],
     [doc EXCEPT !.node_data = Garble(@)]}
       \cup UNION {{[doc EXCEPT !.children[k] = x] :
                        x \in Corruptions(doc.children[k])} :
                    k \in DOMAIN doc.children}

\* chatInstance.Snapshot as a call: the caller gets the snapshot
TakeSnapshot ==
    /\ Ready
    /\ op' = [name |-> "Snapshot", arg |-> Snapshot(heap, cursor), err |-> "none"]
    /\ UNCHANGED <<heap, cursor, chatEnabled, clock>>
    /\ UNCHANGED coreVars

\* chatInstance.HasParent: the caller gets the answer
HasParent ==
    /\ Ready
    /\ op' = [name |-> "HasParent",
              arg |-> <<IF heap[cursor].Type = "message_pair"
                        THEN heap[cursor].Parent # 0 ELSE FALSE>>,
              err |-> "none"]
    /\ UNCHANGED <<heap, cursor, chatEnabled, clock>>
    /\ UNCHANGED coreVars

\* the variant of ListChildren that answers for the root only
ListChildrenOfRoot ==
    /\ Ready
    /\ op' = [name |-> "ListChildren",
              arg |-> IF heap[cursor].Type = "root"
                      THEN [i \in DOMAIN heap[cursor].Children |->
                               Hash(heap[heap[cursor].Children[i]])]
                      ELSE <<>>,
              err |-> "none"]
    /\ UNCHANGED <<heap, cursor, chatEnabled, clock>>
    /\ UNCHANGED coreVars

\* chatInstance.ListChildren: the caller gets the hashes of the children
\* of the cursor node, in order
ListChildren ==
    /\ Ready
    /\ op' = [name |-> "ListChildren",
              arg |-> [i \in DOMAIN heap[cursor].Children |->
                          Hash(heap[heap[cursor].Children[i]])],
              err |-> "none"]
    /\ UNCHANGED <<heap, cursor, chatEnabled, clock>>
    /\ UNCHANGED coreVars

\* the snapshots a caller may hand to NewReplFromSnapshot, which reads the
\* active branch and the document only: the snapshot of the chat (a
\* snapshot with the hash of another node as active branch is the
\* snapshot taken with the cursor on that node), and that snapshot with
\* the active branch cut to its first half, emptied or replaced by a
\* string that addresses nothing
BranchInputs(h, c) ==
    LET s == Snapshot(h, c)
    IN {s}
       \cup {[s EXCEPT !.ActiveBranch = b] :
                 b \in {SubSeq(s.ActiveBranch, 1, Len(s.ActiveBranch) \div 2),
                        <<>>, <<9>>}}

\* the snapshots a caller may hand to newChatInstanceFromSnapshot: those
\* above, the snapshot of the chat with another provider name, with the
\* document of a child in place of the tree, and with one node of the
\* document corrupted
SnapshotInputs(h, c) ==
    LET s == Snapshot(h, c)
    IN BranchInputs(h, c)
       \cup {[s EXCEPT !.ProviderName = "missing"]}
       \cup {[s EXCEPT !.Contents = s.Contents.children[k]] :
                 k \in DOMAIN s.Contents.children}
       \cup {[s EXCEPT !.Contents = x] : x \in Corruptions(s.Contents)}

\* the heap of a restored instance: the embedded root is a copy of the
\* decoded root, which stays where the decoder allocated it
RestoredHeap(frag) == <<Shift(frag, 1)[1]>> \o Shift(frag, 1)

\* the nodes the active branch ab resolves to: the exact match if there is
\* one, otherwise any node whose hash starts with ab
Resolve(h, ab) ==
    LET nodeMap == MapTree(h, ChatRoot)
    IN IF ab \in DOMAIN nodeMap THEN {nodeMap[ab]}
       ELSE {nodeMap[k] : k \in {x \in DOMAIN nodeMap : HasPrefix(x, ab)}}

RestoreOp(name, s, err) == [name |-> name, arg |-> s, err |-> err]

\* newChatInstanceFromSnapshot; a failed restore returns no instance and
\* the caller keeps what it had
newChatInstanceFromSnapshot(s) ==
    /\ Ready
    /\ LET name == "newChatInstanceFromSnapshot"
           trees == unmarshalNode(s.Contents)
       IN IF trees = {}
          THEN /\ op' = RestoreOp(name, s, "failed to unmarshal snapshot")
               /\ UNCHANGED <<heap, cursor, chatEnabled>>
          ELSE \E frag \in trees :
               IF frag[1].Type # "root"
               THEN /\ op' = RestoreOp(name, s, "not a valid root node")
                    /\ UNCHANGED <<heap, cursor, chatEnabled>>
               ELSE IF s.ProviderName \notin Providers
               THEN /\ op' = RestoreOp(name, s, "provider not found")
                    /\ UNCHANGED <<heap, cursor, chatEnabled>>
               ELSE LET h == RestoredHeap(frag)
                    IN IF s.ActiveBranch = <<>>
                       THEN /\ heap' = h
                            /\ cursor' = ChatRoot
                            /\ chatEnabled' = TRUE
                            /\ op' = RestoreOp(name, s, "none")
                       ELSE IF Resolve(h, s.ActiveBranch) = {}
                       THEN /\ op' = RestoreOp(name, s, "could not find active branch")
                            /\ UNCHANGED <<heap, cursor, chatEnabled>>
                       ELSE \E n \in Resolve(h, s.ActiveBranch) :
                            /\ heap' = h
                            /\ cursor' = n
                            /\ chatEnabled' = TRUE
                            /\ op' = RestoreOp(name, s, "none")
    /\ UNCHANGED clock
    /\ UNCHANGED coreVars

\* NewReplFromSnapshot: an active branch that resolves to nothing leaves
\* the cursor on the root, with a warning on the console and no error
NewReplFromSnapshot(s) ==
    /\ Ready
    /\ LET name == "NewReplFromSnapshot"
           trees == unmarshalNode(s.Contents)
       IN IF trees = {}
          THEN /\ op' = RestoreOp(name, s, "failed to unmarshal snapshot")
               /\ UNCHANGED <<heap, cursor, chatEnabled>>
          ELSE \E frag \in trees :
               IF frag[1].Type # "root"
               THEN /\ op' = RestoreOp(name, s, "not a valid root node")
                    /\ UNCHANGED <<heap, cursor, chatEnabled>>
               ELSE LET h == RestoredHeap(frag)
                    IN /\ heap' = h
                       /\ chatEnabled' = TRUE
                       /\ op' = RestoreOp(name, s, "none")
                       /\ IF s.ActiveBranch = <<>> \/ Resolve(h, s.ActiveBranch) = {}
                          THEN cursor' = ChatRoot
                          ELSE cursor' \in Resolve(h, s.ActiveBranch)
    /\ UNCHANGED clock
    /\ UNCHANGED coreVars

Next ==
    \/ Return
    \/ Tick
    \/ \E m \in Questions : SubmitMessage(m)
    \/ \E s \in HashInputs(heap) : Goto(s)
    \/ Parent
    \/ \E i \in -1..(Len(heap[cursor].Children) + 1) : Child(i)
    \/ Root
    \/ \E b \in BOOLEAN : ToggleChat(b)
    \/ \E s \in SnapshotInputs(heap, cursor) : newChatInstanceFromSnapshot(s)
    \/ \E s \in BranchInputs(heap, cursor) : NewReplFromSnapshot(s)
    \/ TakeSnapshot
    \/ HasParent
    \/ ListChildren

Spec == Init /\ [][Next]_vars

(***************************************************************************)
(* The node model used directly, as a caller of the package may use it:    *)
(* pairs are built with NewMessagePairNode for any parent, nil included,   *)
(* and handed to AddChild of any node.                                     *)
(***************************************************************************)
\* message pair nodes a caller builds
MaxBuilt == 3

\* NewMessagePairNode(parent) as a call; parent = 0 is nil
BuildPair(parent) ==
    /\ Ready
    /\ Cardinality(Pairs(heap)) < MaxBuilt
    /\ heap' = Append(heap, NewMessagePairNode(parent, clock))
    /\ op' = [name |-> "NewMessagePairNode", arg |-> <<parent>>, err |-> "none"]
    /\ UNCHANGED <<cursor, chatEnabled, clock>>
    /\ UNCHANGED coreVars

\* the pairs no node lists among its children
Unattached(h) ==
    {c \in Pairs(h) :
        \A n \in DOMAIN h : \A i \in DOMAIN h[n].Children : h[n].Children[i] # c}

\* p.AddChild(c) as a call, for a pair c that is not yet in a tree
AddChildCall(p, c) ==
    /\ Ready
    /\ c \in Unattached(heap)
    /\ p \notin Subtree(heap, c)
    /\ heap' = AddChild(heap, p, c)
    /\ op' = [name |-> "AddChild", arg |-> <<p, c>>, err |-> "none"]
    /\ UNCHANGED <<cursor, chatEnabled, clock>>
    /\ UNCHANGED coreVars

NextAddChild ==
    \/ Return
    \/ Tick
    \/ \E parent \in {0} \cup DOMAIN heap : BuildPair(parent)
    \/ \E p \in DOMAIN heap : \E c \in DOMAIN heap : AddChildCall(p, c)

SpecAddChild == Init /\ [][NextAddChild]_vars

(***************************************************************************)
(* The fields of a pair set one at a time, as a caller of the package may  *)
(* set them, and Hash() called on a node, again and again.                 *)
(***************************************************************************)
\* the calls of Hash() a caller makes in a row
MaxCalls == 2

\* msgPair.User = NewMessageData("user", m)
SetUser(c, m) ==
    /\ Ready
    /\ c \in Pairs(heap)
    /\ heap' = [heap EXCEPT ![c].User = <<NewMessageData("user", m)>>]
    /\ op' = [name |-> "SetUser", arg |-> <<c>>, err |-> "none"]
    /\ UNCHANGED <<cursor, chatEnabled, clock>>
    /\ UNCHANGED coreVars

\* msgPair.Assistant = NewMessageData("assistant", m)
SetAssistant(c, m) ==
    /\ Ready
    /\ c \in Pairs(heap)
    /\ heap' = [heap EXCEPT ![c].Assistant = <<NewMessageData("assistant", m)>>]
    /\ op' = [name |-> "SetAssistant", arg |-> <<c>>, err |-> "none"]
    /\ UNCHANGED <<cursor, chatEnabled, clock>>
    /\ UNCHANGED coreVars

\* n.Hash() as a call: the caller gets the hash; arg is the node, the
\* hash returned and the number of calls made in a row
HashCall(n) ==
    /\ \/ Ready
       \/ op.name = "Hash" /\ op.arg[3] < MaxCalls
    /\ op' = [name |-> "Hash",
              arg |-> <<n, Hash(heap[n]), IF Ready THEN 1 ELSE op.arg[3] + 1>>,
              err |-> "none"]
    /\ UNCHANGED <<heap, cursor, chatEnabled, clock>>
    /\ UNCHANGED coreVars

NextPair ==
    \/ Return
    \/ Tick
    \/ BuildPair(ChatRoot)
    \/ \E c \in DOMAIN heap : \E m \in Questions : SetUser(c, m)
    \/ \E c \in DOMAIN heap : \E m \in Responses : SetAssistant(c, m)
    \/ \E n \in DOMAIN heap : HashCall(n)

SpecPair == Init /\ [][NextPair]_vars

(***************************************************************************)
(* The histories of a chat whose user messages differ: the lines History() *)
(* returns for the cursor node and the messages GetHistory collects for    *)
(* the provider.                                                           *)
(***************************************************************************)
\* the user messages of such a chat
Prompts == {<<1>>, <<2>>}

\* messageToString: "role: content"
messageToString(m) == [role |-> m.Role, content |-> UnencodedContent(m)]

RECURSIVE historyFromNode(_, _, _)
\* historyFromNode: the messages of the complete pairs from the top of the
\* parent chain down to node, behind those of list
historyFromNode(h, node, list) ==
    IF node = 0 THEN list
    ELSE LET above == IF h[node].Type # "root" /\ h[node].Parent # 0
                      THEN historyFromNode(h, h[node].Parent, list)
                      ELSE list
         IN IF h[node].Type = "message_pair" /\ Complete(h[node])
            THEN above \o <<h[node].User[1], h[node].Assistant[1]>>
            ELSE above

\* interface{}(m).(*MessagePairNode) in node.History, where m is a *node:
\* the dynamic type of the value is *node, the node embedded in the pair,
\* so the assertion does not hold for any receiver
AssertsMessagePair(n) == FALSE

\* node.History
History(h, n) ==
    LET above == IF h[n].Parent # 0
                 THEN historyFromNode(h, h[n].Parent, <<>>)
                 ELSE <<>>
        own == IF h[n].Type = "message_pair" /\ AssertsMessagePair(n)
               THEN h[n].User \o h[n].Assistant
               ELSE <<>>
        messages == above \o own
    IN [i \in DOMAIN messages |-> messageToString(messages[i])]

\* c.currentNode.History() as a call, the first statement of PrintHistory
HistoryCall ==
    /\ Ready
    /\ op' = [name |-> "History", arg |-> History(heap, cursor), err |-> "none"]
    /\ UNCHANGED <<heap, cursor, chatEnabled, clock>>
    /\ UNCHANGED coreVars

\* provider.GetHistory(c.currentNode) as a call, the call the creator makes
\* for the node it extends
GetHistoryCall ==
    /\ Ready
    /\ op' = [name |-> "GetHistory", arg |-> <<>>, err |-> "none",
              history |-> GetHistory(heap, cursor)]
    /\ UNCHANGED <<heap, cursor, chatEnabled, clock>>
    /\ UNCHANGED coreVars

NextHistory ==
    \/ Return
    \/ Tick
    \/ \E m \in Prompts : SubmitMessage(m)
    \/ Parent
    \/ \E i \in 0..Len(heap[cursor].Children) : Child(i)
    \/ Root
    \/ \E s \in {Snapshot(heap, cursor)} : newChatInstanceFromSnapshot(s)
    \/ HistoryCall
    \/ GetHistoryCall

SpecHistory == Init /\ [][NextHistory]_vars

(***************************************************************************)
(* Artifact extraction: ParseArtifactsFrom and its parser.  The content is *)
(* a sequence of bytes; idx counts from 0 as in the code, so the byte at   *)
(* idx is content[idx + 1].                                                *)
(***************************************************************************)
\* the bytes the contents are made of: ` \n space : a
Backtick == 96

NL == 10

SP == 32

Colon == 58

Letter == 97

\* the pieces a content is put together from: a fence, and single bytes
Pieces == {<<Backtick, Backtick, Backtick>>, <<Backtick>>, <<NL>>, <<SP>>, <<Colon>>, <<Letter>>}

\* the number of pieces of a content
MaxPieces == 5

RECURSIVE Contents(_)
\* the contents of at most k pieces
Contents(k) ==
    IF k = 0 THEN {<<>>}
    ELSE Contents(k - 1) \cup {c \o t : c \in Contents(k - 1), t \in Pieces}

\* the messages handed to ParseArtifactsFrom: nil, a message whose content
\* is no base64 text, and the messages NewMessageData builds
ArtifactInputs ==
    {<<>>, <<[Role |-> "assistant", B64EncodedContent |-> <<1>>, RawContent |-> <<>>]>>}
       \cup {<<NewMessageData("assistant", c)>> : c \in Contents(MaxPieces)}

\* content[from:to]
Slice(content, from, to) == SubSeq(content, from + 1, to)

RECURSIVE TrimLeft(_)
TrimLeft(t) == IF t # <<>> /\ t[1] \in {SP, NL} THEN TrimLeft(Tail(t)) ELSE t

RECURSIVE TrimRight(_)
TrimRight(t) ==
    IF t # <<>> /\ t[Len(t)] \in {SP, NL} THEN TrimRight(SubSeq(t, 1, Len(t) - 1))
    ELSE t

\* strings.TrimSpace
TrimSpace(t) == TrimRight(TrimLeft(t))

\* parser.isNext
isNext(content, idx, pos, b) ==
    IF idx + pos >= Len(content) THEN FALSE ELSE content[idx + pos + 1] = b

\* the test for a block indicator at idx
AtBlockIndicator(content, idx) ==
    content[idx + 1] = Backtick /\ isNext(content, idx, 1, Backtick)
        /\ isNext(content, idx, 2, Backtick)

RECURSIVE SkipToEOL(_, _)
SkipToEOL(content, idx) ==
    IF idx < Len(content) /\ content[idx + 1] # NL
    THEN SkipToEOL(content, idx + 1) ELSE idx

\* parser.movIdxToEOL: idx behind the end of the line, and whether
\* anything follows
movIdxToEOL(content, idx) ==
    LET eol == SkipToEOL(content, idx)
        next == IF eol < Len(content) THEN eol + 1 ELSE eol
    IN [idx |-> next, ok |-> next < Len(content)]

RECURSIVE SkipToBlockIndicator(_, _)
SkipToBlockIndicator(content, idx) ==
    IF idx < Len(content) /\ ~AtBlockIndicator(content, idx)
    THEN SkipToBlockIndicator(content, idx + 1) ELSE idx

\* parser.parseUntilBlockIndicator
parseUntilBlockIndicator(content, idx) ==
    LET at == SkipToBlockIndicator(content, idx)
    IN [idx |-> at, ok |-> at < Len(content)]

\* an error of the parser: no artifact and the index where it stopped
ParseError(err, idx) == [err |-> err, artifact |-> <<>>, idx |-> idx]

\* parser.parseMarkdownFileBlock
parseMarkdownFileBlock(content, idx, name, fileType) ==
    LET found == parseUntilBlockIndicator(content, idx)
    IN IF ~found.ok THEN ParseError("no block indicator found", found.idx)
       ELSE [err |-> "none",
             artifact |-> <<[kind |-> "FileArtifact", Id |-> Itoa(idx),
                             Data |-> Slice(content, idx, found.idx),
                             Name |-> name, FileType |-> fileType]>>,
             idx |-> found.idx + 3]

\* parser.parseMarkdownNonFileBlock
parseMarkdownNonFileBlock(content, idx) ==
    LET found == parseUntilBlockIndicator(content, idx)
    IN IF ~found.ok THEN ParseError("no block indicator found", found.idx)
       ELSE [err |-> "none",
             artifact |-> <<[kind |-> "NonFileArtifact",
                             Data |-> Slice(content, idx, found.idx)]>>,
             idx |-> found.idx + 3]

\* the places of the colons of a string
ColonsOf(t) == {i \in DOMAIN t : t[i] = Colon}

\* the block named by the info string: strings.Split(file_info, ":") has
\* two parts when there is one colon
parseNamedBlock(content, idx, file_info) ==
    IF Cardinality(ColonsOf(file_info)) # 1
    THEN parseMarkdownFileBlock(content, idx, <<>>, file_info)
    ELSE LET c == CHOOSE i \in ColonsOf(file_info) : TRUE
         IN parseMarkdownFileBlock(content, idx,
                SubSeq(file_info, c + 1, Len(file_info)),
                SubSeq(file_info, 1, c - 1))

\* the variant of parseMarkdownBlock that takes every block for a file
parseMarkdownBlockAsFile(content, idx) ==
    LET eol == movIdxToEOL(content, idx)
        file_info == TrimSpace(Slice(content, idx, eol.idx - 1))
    IN IF ~eol.ok THEN ParseError("no EOL found", eol.idx)
       ELSE parseNamedBlock(content, eol.idx, file_info)

\* parser.parseMarkdownBlock, idx behind the opening block indicator
parseMarkdownBlock(content, idx) ==
    LET eol == movIdxToEOL(content, idx)
        file_info == TrimSpace(Slice(content, idx, eol.idx - 1))
    IN IF ~eol.ok THEN ParseError("no EOL found", eol.idx)
       ELSE IF Len(file_info) = 0
       THEN parseMarkdownNonFileBlock(content, eol.idx)
       ELSE parseNamedBlock(content, eol.idx, file_info)

\* the text between textStart and idx as an artifact, when it is more
\* than white space
TextArtifact(content, textStart, idx) ==
    IF textStart < idx /\ Len(TrimSpace(Slice(content, textStart, idx))) > 0
    THEN <<[kind |-> "NonFileArtifact",
            Data |-> TrimSpace(Slice(content, textStart, idx))]>>
    ELSE <<>>

RECURSIVE parsePartial(_, _, _, _)
\* the variant of parse that returns, with the error of a block, the
\* artifacts it has collected before that block
parsePartial(content, idx, textStart, result) ==
    IF idx >= Len(content)
    THEN [err |-> "none", result |-> result \o TextArtifact(content, textStart, idx)]
    ELSE IF AtBlockIndicator(content, idx)
    THEN LET block == parseMarkdownBlock(content, idx + 3)
         IN IF block.err # "none"
            THEN [err |-> block.err,
                  result |-> result \o TextArtifact(content, textStart, idx)]
            ELSE parsePartial(content, block.idx, block.idx,
                              result \o TextArtifact(content, textStart, idx)
                                     \o block.artifact)
    ELSE parsePartial(content, idx + 1, textStart, result)

RECURSIVE parse(_, _, _, _)
\* parser.parse from idx on, with result collected so far
parse(content, idx, textStart, result) ==
    IF idx >= Len(content)
    THEN [err |-> "none", result |-> result \o TextArtifact(content, textStart, idx)]
    ELSE IF AtBlockIndicator(content, idx)
    THEN LET block == parseMarkdownBlock(content, idx + 3)
         IN IF block.err # "none" THEN [err |-> block.err, result |-> <<>>]
            ELSE parse(content, block.idx, block.idx,
                       result \o TextArtifact(content, textStart, idx)
                              \o block.artifact)
    ELSE parse(content, idx + 1, textStart, result)

\* ParseArtifactsFrom as a call: the caller gets the artifacts or an error
ParseArtifactsFrom(msg) ==
    /\ Ready
    /\ LET name == "ParseArtifactsFrom"
       IN IF msg = <<>>
          THEN op' = [name |-> name, arg |-> msg, err |-> "none", result |-> <<>>]
          ELSE IF ~B64Valid(msg[1].B64EncodedContent)
          THEN op' = [name |-> name, arg |-> msg, err |-> "illegal base64 data",
                      result |-> <<>>]
          ELSE LET r == parse(B64Decode(msg[1].B64EncodedContent), 0, 0, <<>>)
               IN op' = [name |-> name, arg |-> msg, err |-> r.err,
                         result |-> r.result]
    /\ UNCHANGED <<heap, cursor, chatEnabled, clock>>
    /\ UNCHANGED coreVars

NextArtifacts ==
    \/ Return
    \/ Ready /\ \E msg \in ArtifactInputs : ParseArtifactsFrom(msg)

SpecArtifacts == Init /\ [][NextArtifacts]_vars

(***************************************************************************)
(* The core.  Each session id has a goroutine that calls ExecuteStatement, *)
(* SubmitMessage on the instance the last \chat handed to it, and          *)
(* SaveActiveChat.  A critical section that only reads and writes memory   *)
(* is one step, taken when its mutex is free; NewChat, which keeps provMu  *)
(* until it returns, takes the mutex in one step and writes the snapshot   *)
(* in the next.  op is the log of the last step: who took it, for which    *)
(* statement, the error it ended with (done) and the maps it read or wrote *)
(* without holding their mutex (bare).  Contexts are not modelled: no      *)
(* snapshot of the model names one.                                        *)
(***************************************************************************)
\* the names statements give to chats, and the provider names they use
ChatNames == {"c"}

ProviderNames == {"anthropic", "p"}

\* message pair nodes a chat of the core may hold
MaxExchanges == 1

\* the map f with key k set to v
Put(f, k, v) == [x \in DOMAIN f \cup {k} |-> IF x = k THEN v ELSE f[x]]

\* the client id of a chat, as bytes of the root hash
ClientId(name) == IF name = "anthropic" THEN <<3>> ELSE <<5>>

\* the place of a chat instance that was not built
NoInstance ==
    [heap |-> <<>>, cursor |-> 0, chatEnabled |-> FALSE, provider |-> BaseProvider]

\* NewChat up to newChatInstance(cloned): the instance of a new chat
newChatInstance(name, providerName, provider) ==
    LET chatSettings == [provider EXCEPT !.Name = name, !.Host = providerName]
        root == NewRootNode([Provider |-> ClientId(chatSettings.Name),
                             Model |-> <<>>, Prompt |-> <<>>, Temperature |-> 7,
                             MaxTokens |-> chatSettings.MaxTokens])
    IN [heap |-> <<root>>, cursor |-> ChatRoot, chatEnabled |-> TRUE,
        provider |-> chatSettings]

\* chatInstance.Snapshot of an instance of the core
SnapshotOf(chat) ==
    [Snapshot(chat.heap, chat.cursor) EXCEPT !.ProviderName = chat.provider.Host]

\* newChatInstanceFromSnapshot(core, snap): every outcome, an error or the
\* instance built
restoreFromSnapshot(provs, snap) ==
    LET trees == unmarshalNode(snap.Contents)
        failed(err) == [err |-> err, chat |-> NoInstance]
    IN IF trees = {} THEN {failed("failed to unmarshal snapshot")}
       ELSE UNION {
              IF frag[1].Type # "root" THEN {failed("not a valid root node")}
              ELSE IF snap.ProviderName \notin DOMAIN provs
              THEN {failed("provider not found")}
              ELSE LET h == RestoredHeap(frag)
                       chat == [heap |-> h, cursor |-> ChatRoot,
                                chatEnabled |-> TRUE,
                                provider |-> provs[snap.ProviderName]]
                   IN IF snap.ActiveBranch = <<>>
                      THEN {[err |-> "none", chat |-> chat]}
                      ELSE IF Resolve(h, snap.ActiveBranch) = {}
                      THEN {failed("could not find active branch")}
                      ELSE {[err |-> "none", chat |-> [chat EXCEPT !.cursor = n]] :
                               n \in Resolve(h, snap.ActiveBranch)} :
              frag \in trees}

\* chat.Goto(hash) in loadChat, its error dropped
GotoIn(chat, nodeHash) ==
    LET nodeMap == MapTree(chat.heap, ChatRoot)
    IN IF nodeHash \in DOMAIN nodeMap
       THEN [chat EXCEPT !.cursor = nodeMap[nodeHash]]
       ELSE chat

RECURSIVE DocHashes(_)
\* the hashes of the nodes a document decodes to
DocHashes(doc) ==
    {Hash(NodeFromData(doc.node_data))}
        \cup UNION {DocHashes(doc.children[k]) : k \in DOMAIN doc.children}

\* the hashes a statement may name: those of the nodes of the instances
\* and of the stored snapshots, and one string that addresses nothing
KnownHashes ==
    (UNION {{Hash(instances[i].heap[n]) : n \in DOMAIN instances[i].heap} :
               i \in DOMAIN instances}
       \cup UNION {DocHashes(chatStore[f].Contents) : f \in DOMAIN chatStore}
       \cup {<<9>>}) \ {<<>>}

\* \new-provider "p" :host "anthropic" :max-tokens n, where n tells the
\* statement of one session from that of the other; the temperature of a
\* statement that names none is 0
NewProviderStatements(s) ==
    {[kw |-> "new-provider", name |-> "p", host |-> "anthropic",
      maxTokens |-> IF s = "s1" THEN 1 ELSE 2, temperature |-> 0]}

\* \new-chat name :provider p
NewChatStatements(names) ==
    {[kw |-> "new-chat", name |-> n, provider |-> p] :
        n \in ChatNames, p \in names}

\* \chat name with or without :hash (hash is << >> without, <<h>> with)
ChatStatements(hashes) ==
    {[kw |-> "chat", name |-> n, hash |-> h] :
        n \in ChatNames, h \in {<<>>} \cup {<<x>> : x \in hashes}}

\* the log of a step that does not end the statement
Step(name, s, stmt, bare) ==
    [name |-> name, by |-> s, stmt |-> stmt, err |-> "none", done |-> FALSE,
     bare |-> bare, chat |-> 0]

\* the log of the step that ends the statement with err; chat is the
\* LoadedInstance of the result, 0 when there is none
Done(name, s, stmt, err, bare, chat) ==
    [name |-> name, by |-> s, stmt |-> stmt, err |-> err, done |-> TRUE,
     bare |-> bare, chat |-> chat]

\* the goroutine of s is back with its caller
Finish(s, chat, made) == proc' = [proc EXCEPT ![s] = Between(chat, made)]

Free(m) == mutex[m] = "free"

\* ExecuteStatement up to session.execute: the session is looked up, and
\* registered when it is new, under sesMu
ExecuteStatement(s, stmt) ==
    /\ proc[s].pc = "idle"
    /\ Free("sesMu")
    /\ sessions' = IF s \in DOMAIN sessions THEN sessions
                   ELSE Put(sessions, s, [id |-> s, activeChatId |-> ""])
    /\ proc' = [proc EXCEPT ![s] =
                   [pc |-> stmt.kw, stmt |-> stmt, chat |-> proc[s].chat,
                    made |-> proc[s].made]]
    /\ op' = Step("ExecuteStatement", s, stmt, {})
    /\ UNCHANGED <<providers, providerStore, activeChats, chatStore, instances, mutex>>
    /\ UNCHANGED chatVars
    /\ UNCHANGED <<baseProviders, contexts, contextStore>>

\* newProviderFromStatement: the checks under provMu and the settings of
\* the clone
newProviderFromStatement(s) ==
    /\ proc[s].pc = "new-provider"
    /\ Free("provMu")
    /\ LET stmt == proc[s].stmt
           base == providers[stmt.host]
           maxTokens == IF stmt.maxTokens = 0 \/ stmt.maxTokens > base.MaxTokens
                        THEN base.MaxTokens ELSE stmt.maxTokens
           temperature == IF stmt.temperature = 0 \/ stmt.temperature > 10
                          THEN base.Temperature ELSE stmt.temperature
       IN IF stmt.name \in DOMAIN providers
          THEN /\ Finish(s, proc[s].chat, proc[s].made)
               /\ op' = Done("newProviderFromStatement", s, stmt,
                             "already exists", {}, 0)
          ELSE IF stmt.host \notin DOMAIN providers
          THEN /\ Finish(s, proc[s].chat, proc[s].made)
               /\ op' = Done("newProviderFromStatement", s, stmt,
                             "host provider does not exist", {}, 0)
          ELSE /\ proc' = [proc EXCEPT ![s] =
                              [pc |-> "AddProvider", stmt |-> stmt,
                               chat |-> proc[s].chat, made |-> proc[s].made,
                               settings |-> [Name |-> stmt.name,
                                             Host |-> stmt.host,
                                             MaxTokens |-> maxTokens,
                                             Temperature |-> temperature]]]
               /\ op' = Step("newProviderFromStatement", s, stmt, {})
    /\ UNCHANGED <<providers, providerStore, sessions, activeChats, chatStore,
                   instances, mutex>>
    /\ UNCHANGED chatVars
    /\ UNCHANGED <<baseProviders, contexts, contextStore>>

\* the variant of AddProvider that stores the provider without a look at
\* the map
AddProviderOverwriting(s) ==
    /\ proc[s].pc = "AddProvider"
    /\ Free("provMu")
    /\ providers' = Put(providers, proc[s].stmt.name, proc[s].settings)
    /\ proc' = [proc EXCEPT ![s].pc = "addToProviderStore"]
    /\ op' = Step("AddProvider", s, proc[s].stmt, {})
    /\ UNCHANGED <<providerStore, sessions, activeChats, chatStore, instances, mutex>>
    /\ UNCHANGED chatVars
    /\ UNCHANGED <<baseProviders, contexts, contextStore>>

\* AddProvider up to the release of provMu: the name is looked up again
\* and the provider stored
AddProvider(s) ==
    /\ proc[s].pc = "AddProvider"
    /\ Free("provMu")
    /\ LET stmt == proc[s].stmt
       IN IF stmt.name \in DOMAIN providers
          THEN /\ Finish(s, proc[s].chat, proc[s].made)
               /\ op' = Done("AddProvider", s, stmt, "already exists", {}, 0)
               /\ UNCHANGED providers
          ELSE /\ providers' = Put(providers, stmt.name, proc[s].settings)
               /\ proc' = [proc EXCEPT ![s].pc = "addToProviderStore"]
               /\ op' = Step("AddProvider", s, stmt, {})
    /\ UNCHANGED <<providerStore, sessions, activeChats, chatStore, instances, mutex>>
    /\ UNCHANGED chatVars
    /\ UNCHANGED <<baseProviders, contexts, contextStore>>

\* the rest of AddProvider: the settings are written to the provider
\* store
addToProviderStore(s) ==
    /\ proc[s].pc = "addToProviderStore"
    /\ providerStore' = Put(providerStore, proc[s].stmt.name, proc[s].settings)
    /\ Finish(s, proc[s].chat, proc[s].made \cup {proc[s].stmt.name})
    /\ op' = Done("addToProviderStore", s, proc[s].stmt, "none", {}, 0)
    /\ UNCHANGED <<providers, sessions, activeChats, chatStore, instances, mutex>>
    /\ UNCHANGED chatVars
    /\ UNCHANGED <<baseProviders, contexts, contextStore>>

\* NewChat: c.provMu.Lock(), with the unlock deferred to the return
NewChat(s) ==
    /\ proc[s].pc = "new-chat"
    /\ Free("provMu")
    /\ mutex' = [mutex EXCEPT !["provMu"] = s]
    /\ proc' = [proc EXCEPT ![s].pc = "writeSnapshot"]
    /\ op' = Step("NewChat", s, proc[s].stmt, {})
    /\ UNCHANGED <<providers, providerStore, sessions, activeChats, chatStore,
                   instances>>
    /\ UNCHANGED chatVars
    /\ UNCHANGED <<baseProviders, contexts, contextStore>>

\* the rest of NewChat, provMu held: the provider is looked up, the
\* instance built and its snapshot written to the chat store under the
\* name of the chat; the return releases provMu
writeSnapshot(s) ==
    /\ proc[s].pc = "writeSnapshot"
    /\ LET stmt == proc[s].stmt
       IN IF stmt.provider \notin DOMAIN providers
          THEN /\ op' = Done("NewChat", s, stmt, "provider not found", {}, 0)
               /\ UNCHANGED chatStore
          ELSE /\ chatStore' =
                     Put(chatStore, stmt.name,
                         SnapshotOf(newChatInstance(stmt.name, stmt.provider,
                                                    providers[stmt.provider])))
               /\ op' = Done("writeSnapshot", s, stmt, "none", {}, 0)
    /\ mutex' = [mutex EXCEPT !["provMu"] = "free"]
    /\ Finish(s, proc[s].chat, proc[s].made)
    /\ UNCHANGED <<providers, providerStore, sessions, activeChats, instances>>
    /\ UNCHANGED chatVars
    /\ UNCHANGED <<baseProviders, contexts, contextStore>>

\* OnLoadChat after loadChat has returned chat: the session remembers the
\* name of the chat
SetActiveChatId(s, name) ==
    sessions' = [sessions EXCEPT ![s].activeChatId = name]

\* loadChat up to the release of chatMu: an active chat is returned as it
\* is
loadChat(s) ==
    /\ proc[s].pc = "chat"
    /\ Free("chatMu")
    /\ LET stmt == proc[s].stmt
       IN IF stmt.name \in DOMAIN activeChats
          THEN /\ Finish(s, activeChats[stmt.name], proc[s].made)
               /\ SetActiveChatId(s, stmt.name)
               /\ op' = Done("loadChat", s, stmt, "none", {},
                             activeChats[stmt.name])
          ELSE /\ proc' = [proc EXCEPT ![s].pc = "LoadFromChatStore"]
               /\ UNCHANGED sessions
               /\ op' = Step("loadChat", s, stmt, {})
    /\ UNCHANGED <<providers, providerStore, activeChats, chatStore, instances, mutex>>
    /\ UNCHANGED chatVars
    /\ UNCHANGED <<baseProviders, contexts, contextStore>>

\* loadChat from LoadFromChatStore to chat.Goto: the snapshot is read, the
\* instance is built by newChatInstanceFromSnapshot, which looks the
\* provider up in core.providers with no mutex held, and the cursor is
\* sent to the hash of the statement
LoadFromChatStore(s) ==
    /\ proc[s].pc = "LoadFromChatStore"
    /\ LET stmt == proc[s].stmt
       IN IF stmt.name \notin DOMAIN chatStore
          THEN /\ Finish(s, proc[s].chat, proc[s].made)
               /\ op' = Done("LoadFromChatStore", s, stmt, "no such file", {}, 0)
               /\ UNCHANGED instances
          ELSE \E r \in restoreFromSnapshot(providers, chatStore[stmt.name]) :
                 IF r.err # "none"
                 THEN /\ Finish(s, proc[s].chat, proc[s].made)
                      /\ op' = Done("newChatInstanceFromSnapshot", s, stmt, r.err,
                                    {"providers"}, 0)
                      /\ UNCHANGED instances
                 ELSE /\ instances' =
                            Append(instances,
                                   IF stmt.hash = <<>> THEN r.chat
                                   ELSE GotoIn(r.chat, stmt.hash[1]))
                      /\ proc' = [proc EXCEPT ![s] =
                                     [pc |-> "activeChats", stmt |-> stmt,
                                      chat |-> proc[s].chat,
                                      made |-> proc[s].made,
                                      built |-> Len(instances) + 1]]
                      /\ op' = Step("newChatInstanceFromSnapshot", s, stmt,
                                    {"providers"})
    /\ UNCHANGED <<providers, providerStore, sessions, activeChats, chatStore, mutex>>
    /\ UNCHANGED chatVars
    /\ UNCHANGED <<baseProviders, contexts, contextStore>>

\* the end of loadChat: the instance is put into activeChats under chatMu
\* and returned
AddToActiveChats(s) ==
    /\ proc[s].pc = "activeChats"
    /\ Free("chatMu")
    /\ activeChats' = Put(activeChats, proc[s].stmt.name, proc[s].built)
    /\ Finish(s, proc[s].built, proc[s].made)
    /\ SetActiveChatId(s, proc[s].stmt.name)
    /\ op' = Done("loadChat", s, proc[s].stmt, "none", {}, proc[s].built)
    /\ UNCHANGED <<providers, providerStore, chatStore, instances, mutex>>
    /\ UNCHANGED chatVars
    /\ UNCHANGED <<baseProviders, contexts, contextStore>>

\* the statement of a call that is no statement
Call(name) == [kw |-> name, name |-> ""]

\* the variant of SubmitMessage that takes chatMu for the time of the call
SubmitLocked(s, message) ==
    /\ proc[s].pc = "idle"
    /\ proc[s].chat # 0
    /\ Free("chatMu")
    /\ LET chat == instances[proc[s].chat]
       IN /\ chat.chatEnabled
          /\ Cardinality(Pairs(chat.heap)) < MaxExchanges
          /\ instances' = [instances EXCEPT ![proc[s].chat].heap =
                              ExtendFrom(chat.heap, chat.cursor, clock)]
          /\ proc' = [proc EXCEPT ![s] =
                         [pc |-> "Ask", chat |-> proc[s].chat,
                          made |-> proc[s].made, node |-> Len(chat.heap) + 1,
                          message |-> message]]
    /\ mutex' = [mutex EXCEPT !["chatMu"] = s]
    /\ op' = Step("SubmitMessage", s, Call("SubmitMessage"), {})
    /\ UNCHANGED <<providers, providerStore, sessions, activeChats, chatStore>>
    /\ UNCHANGED chatVars
    /\ UNCHANGED <<baseProviders, contexts, contextStore>>

\* chatInstance.SubmitMessage on the instance the session holds, up to the
\* request the creator sends to the provider
Submit(s, message) ==
    /\ proc[s].pc = "idle"
    /\ proc[s].chat # 0
    /\ LET chat == instances[proc[s].chat]
       IN /\ chat.chatEnabled
          /\ Cardinality(Pairs(chat.heap)) < MaxExchanges
          /\ instances' = [instances EXCEPT ![proc[s].chat].heap =
                              ExtendFrom(chat.heap, chat.cursor, clock)]
          /\ proc' = [proc EXCEPT ![s] =
                         [pc |-> "Ask", chat |-> proc[s].chat,
                          made |-> proc[s].made, node |-> Len(chat.heap) + 1,
                          message |-> message]]
    /\ op' = Step("SubmitMessage", s, Call("SubmitMessage"), {})
    /\ UNCHANGED <<providers, providerStore, sessions, activeChats, chatStore, mutex>>
    /\ UNCHANGED chatVars
    /\ UNCHANGED <<baseProviders, contexts, contextStore>>

\* the provider answers or fails, and SubmitMessage returns
Ask(s) ==
    /\ proc[s].pc = "Ask"
    /\ LET i == proc[s].chat
           chat == instances[i]
       IN \/ /\ UNCHANGED instances
             /\ op' = Done("SubmitMessage", s, Call("SubmitMessage"), "provider",
                           {}, 0)
          \/ \E resp \in Responses :
               /\ instances' =
                     [instances EXCEPT
                         ![i].heap = Creator(chat.heap, proc[s].node,
                                             proc[s].message, resp),
                         ![i].cursor = proc[s].node]
               /\ op' = Done("SubmitMessage", s, Call("SubmitMessage"), "none",
                             {}, 0)
    /\ Finish(s, proc[s].chat, proc[s].made)
    /\ UNCHANGED <<providers, providerStore, sessions, activeChats, chatStore, mutex>>
    /\ UNCHANGED chatVars
    /\ UNCHANGED <<baseProviders, contexts, contextStore>>

\* SaveActiveChat(s): the session and its active chat are looked up, each
\* under its mutex, and the snapshot of the chat is written to the store
SaveActiveChat(s) ==
    /\ proc[s].pc = "idle"
    /\ Free("sesMu")
    /\ Free("chatMu")
    /\ LET call == Call("SaveActiveChat")
       IN IF s \notin DOMAIN sessions
          THEN /\ op' = Done("SaveActiveChat", s, call, "session does not exist", {}, 0)
               /\ UNCHANGED chatStore
          ELSE IF sessions[s].activeChatId \notin DOMAIN activeChats
          THEN /\ op' = Done("SaveActiveChat", s, call, "chat is not active", {}, 0)
               /\ UNCHANGED chatStore
          ELSE /\ chatStore' =
                     Put(chatStore, sessions[s].activeChatId,
                         SnapshotOf(instances[activeChats[sessions[s].activeChatId]]))
               /\ op' = Done("SaveActiveChat", s, call, "none", {}, 0)
    /\ UNCHANGED <<providers, providerStore, sessions, activeChats, instances,
                   mutex, proc>>
    /\ UNCHANGED chatVars
    /\ UNCHANGED <<baseProviders, contexts, contextStore>>

\* the sessions create providers and chats and load chats
NextProviders ==
    \/ \E s \in Sessions :
          \E stmt \in NewProviderStatements(s) \cup NewChatStatements(ProviderNames)
                         \cup ChatStatements({}) :
             ExecuteStatement(s, stmt)
    \/ \E s \in Sessions : newProviderFromStatement(s)
    \/ \E s \in Sessions : AddProvider(s)
    \/ \E s \in Sessions : addToProviderStore(s)
    \/ \E s \in Sessions : NewChat(s)
    \/ \E s \in Sessions : writeSnapshot(s)
    \/ \E s \in Sessions : loadChat(s)
    \/ \E s \in Sessions : LoadFromChatStore(s)
    \/ \E s \in Sessions : AddToActiveChats(s)

SpecProviders == InitCore /\ [][NextProviders]_vars

\* the sessions create chats on the base provider, load them, talk and save
NextChats ==
    \/ \E s \in Sessions :
          \E stmt \in NewChatStatements({"anthropic"}) \cup ChatStatements(KnownHashes) :
             ExecuteStatement(s, stmt)
    \/ \E s \in Sessions : NewChat(s)
    \/ \E s \in Sessions : writeSnapshot(s)
    \/ \E s \in Sessions : loadChat(s)
    \/ \E s \in Sessions : LoadFromChatStore(s)
    \/ \E s \in Sessions : AddToActiveChats(s)
    \/ \E s \in Sessions : \E m \in Questions : Submit(s, m)
    \/ \E s \in Sessions : Ask(s)
    \/ \E s \in Sessions : SaveActiveChat(s)

SpecChats == InitCore /\ [][NextChats]_vars

\* the sessions create chats on the base provider, load them and talk
NextSubmit ==
    \/ \E s \in Sessions :
          \E stmt \in NewChatStatements({"anthropic"}) \cup ChatStatements({}) :
             ExecuteStatement(s, stmt)
    \/ \E s \in Sessions : NewChat(s)
    \/ \E s \in Sessions : writeSnapshot(s)
    \/ \E s \in Sessions : loadChat(s)
    \/ \E s \in Sessions : LoadFromChatStore(s)
    \/ \E s \in Sessions : AddToActiveChats(s)
    \/ \E s \in Sessions : \E m \in Questions : Submit(s, m)
    \/ \E s \in Sessions : Ask(s)

SpecSubmit == InitCore /\ [][NextSubmit]_vars

(***************************************************************************)
(* The statements that delete: \del-chat, \del-provider, \del-ctx, and     *)
(* \new-ctx, which fills the map \del-ctx empties.                         *)
(***************************************************************************)
\* the map f without the key k
Remove(f, k) == [x \in DOMAIN f \ {k} |-> f[x]]

\* deleteChat, the first critical section: the sessions are scanned for
\* the chat under sesMu
deleteChat(s) ==
    /\ proc[s].pc = "del-chat"
    /\ Free("sesMu")
    /\ LET stmt == proc[s].stmt
       IN IF \E t \in DOMAIN sessions : sessions[t].activeChatId = stmt.name
          THEN /\ Finish(s, proc[s].chat, proc[s].made)
               /\ op' = Done("deleteChat", s, stmt, "active in a session", {}, 0)
          ELSE /\ proc' = [proc EXCEPT ![s].pc = "deleteChat.activeChats"]
               /\ op' = Step("deleteChat", s, stmt, {})
    /\ UNCHANGED <<providers, providerStore, sessions, activeChats, chatStore,
                   instances, mutex>>
    /\ UNCHANGED chatVars
    /\ UNCHANGED <<baseProviders, contexts, contextStore>>

\* deleteChat, the second critical section: the chat is looked up in
\* activeChats under chatMu
deleteChatActive(s) ==
    /\ proc[s].pc = "deleteChat.activeChats"
    /\ Free("chatMu")
    /\ LET stmt == proc[s].stmt
       IN IF stmt.name \in DOMAIN activeChats
          THEN /\ Finish(s, proc[s].chat, proc[s].made)
               /\ op' = Done("deleteChat", s, stmt, "currently active", {}, 0)
          ELSE /\ proc' = [proc EXCEPT ![s].pc = "deleteChat.Remove"]
               /\ op' = Step("deleteChat", s, stmt, {})
    /\ UNCHANGED <<providers, providerStore, sessions, activeChats, chatStore,
                   instances, mutex>>
    /\ UNCHANGED chatVars
    /\ UNCHANGED <<baseProviders, contexts, contextStore>>

\* the rest of deleteChat: os.Remove of the chat file, no mutex held; a
\* file that does not exist is no error
deleteChatRemove(s) ==
    /\ proc[s].pc = "deleteChat.Remove"
    /\ chatStore' = Remove(chatStore, proc[s].stmt.name)
    /\ Finish(s, proc[s].chat, proc[s].made)
    /\ op' = Done("deleteChat", s, proc[s].stmt, "none", {}, 0)
    /\ UNCHANGED <<providers, providerStore, sessions, activeChats, instances, mutex>>
    /\ UNCHANGED chatVars
    /\ UNCHANGED <<baseProviders, contexts, contextStore>>

\* the sessions create chats on the base provider, load them and delete
\* them (\del-chat c)
NextDelChat ==
    \/ \E s \in Sessions :
          \E stmt \in NewChatStatements({"anthropic"}) \cup ChatStatements({})
                         \cup {[kw |-> "del-chat", name |-> n] : n \in ChatNames} :
             ExecuteStatement(s, stmt)
    \/ \E s \in Sessions : NewChat(s)
    \/ \E s \in Sessions : writeSnapshot(s)
    \/ \E s \in Sessions : loadChat(s)
    \/ \E s \in Sessions : LoadFromChatStore(s)
    \/ \E s \in Sessions : AddToActiveChats(s)
    \/ \E s \in Sessions : deleteChat(s)
    \/ \E s \in Sessions : deleteChatActive(s)
    \/ \E s \in Sessions : deleteChatRemove(s)

SpecDelChat == InitCore /\ [][NextDelChat]_vars

\* the maps a caller of SetAvailableProviders hands over: the base
\* provider alone, or with a provider p made from it
AvailableProviders ==
    {[n \in {"anthropic"} |-> BaseProvider],
     [n \in ProviderNames |->
         IF n = "anthropic" THEN BaseProvider
         ELSE [Name |-> n, Host |-> "anthropic", MaxTokens |-> 2,
               Temperature |-> 7]]}

\* c.baseProviders: NewCore stores the one map of its options in
\* c.providers and in c.baseProviders, so the two fields are one map
\* until SetAvailableProviders gives c.providers a map of its own
baseProvidersMap ==
    IF baseProviders.shared THEN providers ELSE baseProviders.map

\* SetAvailableProviders(provs), called by the program that has built the
\* core before it runs a statement; c.providers is written with no mutex
SetAvailableProviders(provs) ==
    /\ baseProviders.shared
    /\ sessions = <<>>
    /\ \A s \in Sessions : proc[s].pc = "idle"
    /\ providers' = provs
    /\ baseProviders' = [shared |-> FALSE, map |-> providers]
    /\ op' = Done("SetAvailableProviders", "main", Call("SetAvailableProviders"),
                  "none", {"providers"}, 0)
    /\ UNCHANGED <<providerStore, sessions, activeChats, chatStore, instances,
                   mutex, proc, contexts, contextStore>>
    /\ UNCHANGED chatVars

\* the variant of onDeleteProvider that makes its checks without provMu
onDeleteProviderUnlocked(s) ==
    /\ proc[s].pc = "del-provider"
    /\ LET stmt == proc[s].stmt
       IN IF stmt.name \notin DOMAIN providers
          THEN /\ Finish(s, proc[s].chat, proc[s].made)
               /\ op' = Done("onDeleteProvider", s, stmt, "does not exist", {}, 0)
          ELSE IF stmt.name \in DOMAIN baseProvidersMap
          THEN /\ Finish(s, proc[s].chat, proc[s].made)
               /\ op' = Done("onDeleteProvider", s, stmt,
                             "cannot delete base provider", {}, 0)
          ELSE /\ proc' = [proc EXCEPT ![s].pc = "onDeleteProvider.ReadDir"]
               /\ op' = Step("onDeleteProvider", s, stmt, {})
    /\ UNCHANGED <<providers, providerStore, sessions, activeChats, chatStore,
                   instances, mutex>>
    /\ UNCHANGED chatVars
    /\ UNCHANGED <<baseProviders, contexts, contextStore>>

\* onDeleteProvider up to the scan of the chat store: provMu is taken, the
\* provider is looked up in c.providers and in c.baseProviders; provMu is
\* released on a return and kept otherwise
onDeleteProvider(s) ==
    /\ proc[s].pc = "del-provider"
    /\ Free("provMu")
    /\ LET stmt == proc[s].stmt
       IN IF stmt.name \notin DOMAIN providers
          THEN /\ Finish(s, proc[s].chat, proc[s].made)
               /\ op' = Done("onDeleteProvider", s, stmt, "does not exist", {}, 0)
               /\ UNCHANGED mutex
          ELSE IF stmt.name \in DOMAIN baseProvidersMap
          THEN /\ Finish(s, proc[s].chat, proc[s].made)
               /\ op' = Done("onDeleteProvider", s, stmt,
                             "cannot delete base provider", {}, 0)
               /\ UNCHANGED mutex
          ELSE /\ mutex' = [mutex EXCEPT !["provMu"] = s]
               /\ proc' = [proc EXCEPT ![s].pc = "onDeleteProvider.ReadDir"]
               /\ op' = Step("onDeleteProvider", s, stmt, {})
    /\ UNCHANGED <<providers, providerStore, sessions, activeChats, chatStore,
                   instances>>
    /\ UNCHANGED chatVars
    /\ UNCHANGED <<baseProviders, contexts, contextStore>>

\* the variant of onDeleteProviderInUse whose return for a provider in use
\* leaves provMu locked
onDeleteProviderInUseLocked(s) ==
    /\ proc[s].pc = "onDeleteProvider.ReadDir"
    /\ LET stmt == proc[s].stmt
       IN IF \E f \in DOMAIN chatStore : chatStore[f].ProviderName = stmt.name
          THEN /\ Finish(s, proc[s].chat, proc[s].made)
               /\ op' = Done("onDeleteProvider", s, stmt, "in use", {}, 0)
          ELSE /\ proc' = [proc EXCEPT ![s].pc = "onDeleteProvider.delete"]
               /\ op' = Step("onDeleteProvider", s, stmt, {})
    /\ UNCHANGED <<providers, providerStore, sessions, activeChats, chatStore,
                   instances, mutex>>
    /\ UNCHANGED chatVars
    /\ UNCHANGED <<baseProviders, contexts, contextStore>>

\* onDeleteProvider, provMu held: the snapshots of the chat store are read
\* and their ProviderName compared with the name
onDeleteProviderInUse(s) ==
    /\ proc[s].pc = "onDeleteProvider.ReadDir"
    /\ LET stmt == proc[s].stmt
       IN IF \E f \in DOMAIN chatStore : chatStore[f].ProviderName = stmt.name
          THEN /\ Finish(s, proc[s].chat, proc[s].made)
               /\ mutex' = [mutex EXCEPT !["provMu"] = "free"]
               /\ op' = Done("onDeleteProvider", s, stmt, "in use", {}, 0)
          ELSE /\ proc' = [proc EXCEPT ![s].pc = "onDeleteProvider.delete"]
               /\ UNCHANGED mutex
               /\ op' = Step("onDeleteProvider", s, stmt, {})
    /\ UNCHANGED <<providers, providerStore, sessions, activeChats, chatStore,
                   instances>>
    /\ UNCHANGED chatVars
    /\ UNCHANGED <<baseProviders, contexts, contextStore>>

\* onDeleteProvider, provMu held: delete(c.providers, name), and provMu is
\* released
onDeleteProviderDelete(s) ==
    /\ proc[s].pc = "onDeleteProvider.delete"
    /\ providers' = Remove(providers, proc[s].stmt.name)
    /\ mutex' = [mutex EXCEPT !["provMu"] = "free"]
    /\ proc' = [proc EXCEPT ![s].pc = "onDeleteProvider.Remove"]
    /\ op' = Step("onDeleteProvider", s, proc[s].stmt, {})
    /\ UNCHANGED <<providerStore, sessions, activeChats, chatStore, instances>>
    /\ UNCHANGED chatVars
    /\ UNCHANGED <<baseProviders, contexts, contextStore>>

\* the rest of onDeleteProvider: os.Remove of the provider file
onDeleteProviderRemove(s) ==
    /\ proc[s].pc = "onDeleteProvider.Remove"
    /\ providerStore' = Remove(providerStore, proc[s].stmt.name)
    /\ Finish(s, proc[s].chat, proc[s].made)
    /\ op' = Done("onDeleteProvider", s, proc[s].stmt, "none", {}, 0)
    /\ UNCHANGED <<providers, sessions, activeChats, chatStore, instances, mutex>>
    /\ UNCHANGED chatVars
    /\ UNCHANGED <<baseProviders, contexts, contextStore>>

\* newContext up to AddToContextStore: ctxMu is taken and the name looked
\* up; ctxMu is released on the return and kept otherwise
newContext(s) ==
    /\ proc[s].pc = "new-ctx"
    /\ Free("ctxMu")
    /\ LET stmt == proc[s].stmt
       IN IF stmt.name \in DOMAIN contexts
          THEN /\ Finish(s, proc[s].chat, proc[s].made)
               /\ op' = Done("newContext", s, stmt, "already exists", {}, 0)
               /\ UNCHANGED mutex
          ELSE /\ mutex' = [mutex EXCEPT !["ctxMu"] = s]
               /\ proc' = [proc EXCEPT ![s].pc = "AddToContextStore"]
               /\ op' = Step("newContext", s, stmt, {})
    /\ UNCHANGED <<providers, providerStore, sessions, activeChats, chatStore,
                   instances>>
    /\ UNCHANGED chatVars
    /\ UNCHANGED <<baseProviders, contexts, contextStore>>

\* the rest of newContext, ctxMu held: the settings are written to the
\* context store; the write fails, or the context is put into c.contexts;
\* ctxMu is released either way
AddToContextStore(s) ==
    /\ proc[s].pc = "AddToContextStore"
    /\ LET stmt == proc[s].stmt
           ctx == [Name |-> stmt.name, Type |-> "directory", Value |-> "d"]
       IN \/ /\ op' = Done("AddToContextStore", s, stmt, "write failed", {}, 0)
             /\ UNCHANGED <<contexts, contextStore>>
          \/ /\ contextStore' = Put(contextStore, stmt.name, ctx)
             /\ contexts' = Put(contexts, stmt.name, ctx)
             /\ op' = Done("newContext", s, stmt, "none", {}, 0)
    /\ mutex' = [mutex EXCEPT !["ctxMu"] = "free"]
    /\ Finish(s, proc[s].chat, proc[s].made)
    /\ UNCHANGED <<providers, providerStore, sessions, activeChats, chatStore,
                   instances, baseProviders>>
    /\ UNCHANGED chatVars

\* deleteContext, the first critical section: the context is looked up
\* under ctxMu
deleteContext(s) ==
    /\ proc[s].pc = "del-ctx"
    /\ Free("ctxMu")
    /\ LET stmt == proc[s].stmt
       IN IF stmt.name \notin DOMAIN contexts
          THEN /\ Finish(s, proc[s].chat, proc[s].made)
               /\ op' = Done("deleteContext", s, stmt, "does not exist", {}, 0)
          ELSE /\ proc' = [proc EXCEPT ![s].pc = "isContextInUse"]
               /\ op' = Step("deleteContext", s, stmt, {})
    /\ UNCHANGED <<providers, providerStore, sessions, activeChats, chatStore,
                   instances, mutex>>
    /\ UNCHANGED chatVars
    /\ UNCHANGED <<baseProviders, contexts, contextStore>>

\* isContextInUse, no mutex held: the Contexts of the snapshots of the chat
\* store are compared with the name
isContextInUse(s) ==
    /\ proc[s].pc = "isContextInUse"
    /\ LET stmt == proc[s].stmt
       IN IF \E f \in DOMAIN chatStore :
                \E i \in DOMAIN chatStore[f].Contexts :
                   chatStore[f].Contexts[i] = stmt.name
          THEN /\ Finish(s, proc[s].chat, proc[s].made)
               /\ op' = Done("deleteContext", s, stmt, "in use", {}, 0)
          ELSE /\ proc' = [proc EXCEPT ![s].pc = "deleteContext.delete"]
               /\ op' = Step("isContextInUse", s, stmt, {})
    /\ UNCHANGED <<providers, providerStore, sessions, activeChats, chatStore,
                   instances, mutex>>
    /\ UNCHANGED chatVars
    /\ UNCHANGED <<baseProviders, contexts, contextStore>>

\* deleteContext, the second critical section: delete(c.contexts, name)
\* under ctxMu
deleteContextDelete(s) ==
    /\ proc[s].pc = "deleteContext.delete"
    /\ Free("ctxMu")
    /\ contexts' = Remove(contexts, proc[s].stmt.name)
    /\ proc' = [proc EXCEPT ![s].pc = "deleteContext.Remove"]
    /\ op' = Step("deleteContext", s, proc[s].stmt, {})
    /\ UNCHANGED <<providers, providerStore, sessions, activeChats, chatStore,
                   instances, mutex, baseProviders, contextStore>>
    /\ UNCHANGED chatVars

\* the rest of deleteContext: os.Remove of the context file
deleteContextRemove(s) ==
    /\ proc[s].pc = "deleteContext.Remove"
    /\ contextStore' = Remove(contextStore, proc[s].stmt.name)
    /\ Finish(s, proc[s].chat, proc[s].made)
    /\ op' = Done("deleteContext", s, proc[s].stmt, "none", {}, 0)
    /\ UNCHANGED <<providers, providerStore, sessions, activeChats, chatStore,
                   instances, mutex, baseProviders, contexts>>
    /\ UNCHANGED chatVars

\* a step of the statement session s is running
Statement(s) ==
    \/ NewChat(s)
    \/ writeSnapshot(s)
    \/ deleteChat(s)
    \/ deleteChatActive(s)
    \/ deleteChatRemove(s)
    \/ onDeleteProvider(s)
    \/ onDeleteProviderInUse(s)
    \/ onDeleteProviderDelete(s)
    \/ onDeleteProviderRemove(s)
    \/ newContext(s)
    \/ AddToContextStore(s)
    \/ deleteContext(s)
    \/ isContextInUse(s)
    \/ deleteContextDelete(s)
    \/ deleteContextRemove(s)

\* the core is given its providers, and the sessions create and delete
\* chats, providers and contexts: \new-chat c :provider p, \del-chat c,
\* \del-provider p, \new-ctx x :dir d, \del-ctx x
NextRegistry ==
    \/ \E provs \in AvailableProviders : SetAvailableProviders(provs)
    \/ \E s \in Sessions :
          \E stmt \in NewChatStatements(ProviderNames)
                         \cup {[kw |-> "del-chat", name |-> n] : n \in ChatNames}
                         \cup {[kw |-> "del-provider", name |-> n] : n \in ProviderNames}
                         \cup {[kw |-> k, name |-> "x"] : k \in {"new-ctx", "del-ctx"}} :
             ExecuteStatement(s, stmt)
    \/ \E s \in Sessions : Statement(s)

\* a goroutine that is in a statement takes its next step; one that waits
\* for a sync.Mutex gets it when it is unlocked again and again
SpecRegistry ==
    InitCore /\ [][NextRegistry]_vars /\ \A s \in Sessions : SF_vars(Statement(s))

(***************************************************************************)
(* The numbers of a \new-provider statement, from the text of the          *)
(* statement to the settings of the provider.  A text is a sequence of     *)
(* characters.                                                             *)
(***************************************************************************)
DigitValue ==
    [c \in {"0", "1", "2", "3", "4", "5", "6", "7", "8", "9"} |->
        CASE c = "0" -> 0 [] c = "1" -> 1 [] c = "2" -> 2 [] c = "3" -> 3
          [] c = "4" -> 4 [] c = "5" -> 5 [] c = "6" -> 6 [] c = "7" -> 7
          [] c = "8" -> 8 [] c = "9" -> 9]

isDigit(c) == c \in DOMAIN DigitValue

RECURSIVE DigitsEnd(_, _)
\* for p.idx < len(p.content) && isDigit(p.content[p.idx]) { p.idx++ }
DigitsEnd(content, idx) ==
    IF idx <= Len(content) /\ isDigit(content[idx])
    THEN DigitsEnd(content, idx + 1)
    ELSE idx

\* parseInteger on content: the text of the property, << >> for nil
parseInteger(content) ==
    LET start == IF content # <<>> /\ content[1] = "-" THEN 2 ELSE 1
    IN IF start > Len(content) \/ ~isDigit(content[start]) THEN <<>>
       ELSE SubSeq(content, 1, DigitsEnd(content, start) - 1)

\* parseReal on content: the text of the property, << >> for nil
parseReal(content) ==
    LET start == IF content # <<>> /\ content[1] = "-" THEN 2 ELSE 1
        dot == DigitsEnd(content, start)
        hasDot == dot <= Len(content) /\ content[dot] = "."
        end == IF hasDot THEN DigitsEnd(content, dot + 1) ELSE dot
        hasDigits == dot > start \/ (hasDot /\ end > dot + 1)
    IN IF ~hasDigits THEN <<>> ELSE SubSeq(content, 1, end - 1)

RECURSIVE Digits(_, _)
\* the number the digits of text read, behind the number n read so far
Digits(text, n) ==
    IF text = <<>> THEN n ELSE Digits(Tail(text), 10 * n + DigitValue[text[1]])

\* strconv.Atoi on the text of an integer property
Atoi(prop) ==
    IF prop[1] = "-" THEN 0 - Digits(Tail(prop), 0) ELSE Digits(prop, 0)

\* strconv.ParseFloat on the text of a real property with at most one
\* digit behind the point, as a number of tenths
ParseFloat(prop) ==
    LET start == IF prop[1] = "-" THEN 2 ELSE 1
        dot == DigitsEnd(prop, start)
        whole == Digits(SubSeq(prop, start, dot - 1), 0)
        tenths == IF dot + 1 <= Len(prop) THEN DigitValue[prop[dot + 1]] ELSE 0
        value == 10 * whole + tenths
    IN IF start = 2 THEN 0 - value ELSE value

\* \new-provider "p" :host "anthropic" :max-tokens m :temperature t, for
\* the texts m and t the parser takes as a whole
NewProviderTexts ==
    {[kw |-> "new-provider", name |-> "p", host |-> "anthropic",
      maxTokens |-> Atoi(parseInteger(m)),
      temperature |-> ParseFloat(parseReal(t))] :
        m \in {x \in {<<"0">>, <<"3">>, <<"1", "2">>, <<"-", "2">>, <<"-">>} :
                  parseInteger(x) = x},
        t \in {x \in {<<"0", ".", "0">>, <<".", "5">>, <<"1", ".", "5">>,
                      <<"-", "0", ".", "5">>, <<".">>} :
                  parseReal(x) = x}}

\* the sessions create the provider p with numbers of every kind
NextNewProvider ==
    \/ \E s \in Sessions : \E stmt \in NewProviderTexts : ExecuteStatement(s, stmt)
    \/ \E s \in Sessions : newProviderFromStatement(s)
    \/ \E s \in Sessions : AddProvider(s)
    \/ \E s \in Sessions : addToProviderStore(s)

SpecNewProvider == InitCore /\ [][NextNewProvider]_vars

(***************************************************************************)
(* Properties.                                                             *)
(***************************************************************************)
RestoreNames == {"newChatInstanceFromSnapshot", "NewReplFromSnapshot"}

Restored == op.name \in RestoreNames /\ op.err = "none"

\* the hashes of the children of a node, in order
ChildHashes(h, id) == [i \in DOMAIN h[id].Children |-> Hash(h[h[id].Children[i]])]

\* a can be had from b by leaving elements out
IsSubseq(a, b) ==
    \E f \in [DOMAIN a -> DOMAIN b] :
       /\ \A i, j \in DOMAIN a : i < j => f[i] < f[j]
       /\ \A i \in DOMAIN a : b[f[i]] = a[i]

RECURSIVE OrderKept(_, _, _, _)
\* the children of the decoded node d of heap hd follow one another as
\* they do under the original node o of heap ho, and so on below them
OrderKept(ho, o, hd, d) ==
    /\ IsSubseq(ChildHashes(hd, d), ChildHashes(ho, o))
    /\ \A j \in DOMAIN hd[d].Children :
          /\ Hash(hd[hd[d].Children[j]]) \in DOMAIN ToMap(ho, o)
          /\ OrderKept(ho, ToMap(ho, o)[Hash(hd[hd[d].Children[j]])],
                       hd, hd[d].Children[j])

RECURSIVE BagTree(_, _)
\* the hashes of a subtree with the children of a node as a multiset
BagTree(h, id) ==
    LET ks == [i \in DOMAIN h[id].Children |-> BagTree(h, h[id].Children[i])]
    IN [hash |-> Hash(h[id]),
        kids |-> {<<ks[i], Cardinality({j \in DOMAIN ks : ks[j] = ks[i]})>> :
                      i \in DOMAIN ks}]

\* C1: a message submission in which the provider fails leaves the cursor
\* where it was and the children list of the cursor node as long as it was
C1_FailedSubmitLeavesTree ==
    [][(op'.name = "SubmitMessage" /\ op'.err = "provider")
         => /\ cursor' = cursor
            /\ Len(heap'[cursor].Children) = Len(heap[cursor].Children)]_vars

\* C2: the tree decoded from the marshalled tree has, at every node, its
\* children in the order they have in the original
C2_RoundTripKeepsOrder ==
    [][(op'.name \in RestoreNames /\ op'.err = "none")
         => OrderKept(heap, ChatRoot, heap', DecodedRoot)]_vars

\* C3: the tree decoded from the marshalled tree has exactly the nodes of
\* the original: under every node the same hashes the same number of times
C3_RoundTripKeepsNodes ==
    [][(op'.name \in RestoreNames /\ op'.err = "none")
         => BagTree(heap', DecodedRoot) = BagTree(heap, ChatRoot)]_vars

\* C4: in the tree unmarshalNode returns the root has no parent, the parent
\* of every other node is the node that lists it among its children, and
\* no node is listed twice
C4_DecodedParentsResolve ==
    Restored =>
        LET T == Subtree(heap, DecodedRoot)
        IN /\ heap[DecodedRoot].Parent = 0
           /\ \A n \in T : \A i \in DOMAIN heap[n].Children :
                 heap[heap[n].Children[i]].Parent = n
           /\ \A c \in T \ {DecodedRoot} :
                 Cardinality({<<n, i>> \in T \X (1..Len(heap)) :
                     i \in DOMAIN heap[n].Children /\ heap[n].Children[i] = c}) = 1

\* a restore has decoded a tree with a node two levels below the root
C4_Witness ==
    /\ Restored
    /\ \E n \in Subtree(heap, DecodedRoot) :
          heap[n].Parent \notin {0, DecodedRoot}

\* C5: a message submission the provider answers adds one MessagePairNode
\* with both messages set as the last child of the node that was the
\* cursor, moves the cursor onto it and changes nothing else in the tree
C5_SubmitAppendsOnePair ==
    [][(op'.name = "SubmitMessage" /\ op'.err = "none")
         => LET new == Len(heap) + 1
            IN /\ Len(heap') = Len(heap) + 1
               /\ heap'[new].Type = "message_pair"
               /\ heap'[new].User # <<>> /\ heap'[new].Assistant # <<>>
               /\ heap'[new].Parent = cursor
               /\ heap'[new].Children = <<>>
               /\ heap'[cursor] =
                      [heap[cursor] EXCEPT !.Children = Append(@, new)]
               /\ \A i \in DOMAIN heap : i # cursor => heap'[i] = heap[i]
               /\ cursor' = new]_vars

\* a submission has succeeded on a node that already had a child
C5_Witness ==
    /\ op.name = "SubmitMessage" /\ op.err = "none"
    /\ Len(heap[heap[cursor].Parent].Children) >= 2

\* C6: a restore that succeeds puts the cursor on the node the active
\* branch addresses (exact match first, otherwise a prefix match), and
\* restoring the snapshot of a chat succeeds with the cursor on a node
\* that has the hash the cursor had
C6_RestoreReseatsCursor ==
    [][(op'.name = "newChatInstanceFromSnapshot")
         => /\ (op'.err = "none" /\ op'.arg.ActiveBranch # <<>>)
                 => cursor' \in Resolve(heap', op'.arg.ActiveBranch)
            /\ (op'.arg = Snapshot(heap, cursor))
                 => /\ op'.err = "none"
                    /\ Hash(heap'[cursor']) = Hash(heap[cursor])]_vars

\* C7: a restore from a snapshot whose active branch addresses no node of
\* the decoded tree returns an error
C7_UnresolvedBranchIsError ==
    (/\ op.name \in RestoreNames
     /\ op.arg.Contents.node_data.type = "root"
     /\ \A x \in DocHashes(op.arg.Contents) :
           ~HasPrefix(x, op.arg.ActiveBranch))
        => op.err # "none"

\* C8: Goto(s), s not empty, moves the cursor to the node with hash s, and
\* when there is none to a node whose hash starts with s
C8_GotoExactThenPrefix ==
    [][(op'.name = "Goto" /\ op'.arg # <<>>)
         => LET hs == {Hash(heap[n]) : n \in Subtree(heap, ChatRoot)} \ {<<>>}
                s == op'.arg
            IN /\ s \in hs
                 => (op'.err = "none" /\ Hash(heap[cursor']) = s)
               /\ (s \notin hs /\ \E x \in hs : HasPrefix(x, s))
                 => (op'.err = "none" /\ HasPrefix(Hash(heap[cursor']), s))]_vars

\* C9: Goto(s) with s neither the hash nor a prefix of the hash of a node
\* of the tree fails with "node not found" and leaves the cursor alone
C9_GotoMissIsNotFound ==
    [][(/\ op'.name = "Goto"
        /\ \A n \in Subtree(heap, ChatRoot) : ~HasPrefix(Hash(heap[n]), op'.arg))
         => /\ op'.err = "node not found"
            /\ cursor' = cursor
            /\ heap' = heap]_vars

\* a Goto has missed with the cursor away from the root
C9_Witness ==
    /\ op.name = "Goto" /\ op.err = "node not found"
    /\ \A n \in Subtree(heap, ChatRoot) : ~HasPrefix(Hash(heap[n]), op.arg)
    /\ cursor # ChatRoot

\* C10: at a cursor node with n children Child(i) moves the cursor to the
\* i-th child for 0 <= i < n, and for i >= n fails with "index out of
\* bounds" and leaves the cursor alone
C10_ChildWithinBounds ==
    [][(op'.name = "Child")
         => LET i == op'.arg[1]
                cs == heap[cursor].Children
            IN /\ heap' = heap
               /\ (0 <= i /\ i < Len(cs))
                    => (op'.err = "none" /\ cursor' = cs[i + 1])
               /\ (i >= Len(cs))
                    => (op'.err = "index out of bounds" /\ cursor' = cursor)]_vars

\* Child(1) has moved the cursor to the second child of a node
C10_Witness ==
    /\ op.name = "Child" /\ op.arg = <<1>> /\ op.err = "none"
    /\ Len(heap[heap[cursor].Parent].Children) >= 2
    /\ heap[heap[cursor].Parent].Children[2] = cursor

\* C11: Child(i) with i < 0 returns an error and leaves the cursor alone,
\* at the root and at a message pair alike
C11_NegativeChildIsError ==
    [][(op'.name = "Child" /\ op'.arg[1] < 0)
         => /\ op'.err = "index out of bounds"
            /\ cursor' = cursor
            /\ heap' = heap]_vars

\* the elements of a sequence
Range(f) == {f[i] : i \in DOMAIN f}

\* C12: Parent() at a MessagePairNode with a parent moves the cursor to
\* that parent, the node that lists the pair among its children, without
\* error; Parent() at a root returns no error and leaves the cursor alone
C12_ParentMovesUpOneLevel ==
    [][(op'.name = "Parent")
         => /\ heap' = heap
            /\ (heap[cursor].Type = "message_pair" /\ heap[cursor].Parent # 0)
                 => /\ op'.err = "none"
                    /\ cursor' = heap[cursor].Parent
                    /\ cursor \in Range(heap[cursor'].Children)
            /\ (heap[cursor].Type = "root")
                 => (op'.err = "none" /\ cursor' = cursor)]_vars

\* Parent() has moved the cursor from a pair onto the pair above it
C12_Witness ==
    /\ op.name = "Parent" /\ op.err = "none"
    /\ heap[cursor].Type = "message_pair"
    /\ heap[cursor].Children # <<>>

\* C13: Root() always succeeds and puts the cursor on the root embedded in
\* the chat instance, whose hash no operation on the chat changes
C13_RootAlwaysSameNode ==
    [][/\ (op'.name = "Root")
            => /\ op'.err = "none"
               /\ cursor' = ChatRoot
               /\ heap' = heap
               /\ heap[ChatRoot].Type = "root"
       /\ (op'.name \notin RestoreNames)
            => Hash(heap'[ChatRoot]) = Hash(heap[ChatRoot])]_vars

\* Root() has been called in a restored chat that has message pairs
C13_Witness ==
    /\ op.name = "Root" /\ op.err = "none" /\ cursor = ChatRoot
    /\ Len(heap) > DecodedRoot
    /\ heap[DecodedRoot].Type = "root"
    /\ heap[ChatRoot].Children # <<>>

\* C14: an operation on a chat (a submission, answered or failed, a move
\* of the cursor, a snapshot, a query) keeps every node, and keeps every
\* node the i-th child of the parent it was the i-th child of
C14_ChildrenNeverRemovedOrReordered ==
    [][(op'.name \notin RestoreNames)
         => \A n \in DOMAIN heap :
               /\ n \in DOMAIN heap'
               /\ heap'[n].Parent = heap[n].Parent
               /\ Len(heap'[n].Children) >= Len(heap[n].Children)
               /\ \A i \in DOMAIN heap[n].Children :
                     heap'[n].Children[i] = heap[n].Children[i]]_vars

\* a snapshot has been taken of a tree in which a node has two children,
\* with the cursor below the root
C14_Witness ==
    /\ op.name = "Snapshot"
    /\ cursor # ChatRoot
    /\ \E n \in DOMAIN heap : Len(heap[n].Children) >= 2

\* C15: every message pair of a chat is reachable from the root of the
\* chat (the node Root() returns to) by following children, and following
\* parent references from it ends on that root
C15_TreeHangsFromRoot ==
    \A n \in Pairs(heap) :
       /\ n \in Subtree(heap, ChatRoot)
       /\ Top(heap, n) = ChatRoot

\* C16: p.AddChild(c) makes c the last child of p, leaves the children p
\* had in place, and makes p the parent of c
C16_AddChildAppendsAndSetsParent ==
    [][(op'.name = "AddChild")
         => LET p == op'.arg[1]
                c == op'.arg[2]
            IN /\ heap'[p].Children = Append(heap[p].Children, c)
               /\ heap'[c].Parent = p]_vars

RECURSIVE DocSize(_)
\* the number of nodes a document holds
DocSize(doc) ==
    LET ks == DOMAIN doc.children
        RECURSIVE Sum(_)
        Sum(S) == IF S = {} THEN 0
                  ELSE LET k == CHOOSE x \in S : TRUE
                       IN DocSize(doc.children[k]) + Sum(S \ {k})
    IN 1 + Sum(ks)

\* C17: Snapshot() returns a document that holds every node of the tree of
\* the chat root and the hash of the cursor node as active branch, and
\* changes neither the tree nor the cursor
C17_SnapshotHoldsWholeTree ==
    [][(op'.name = "Snapshot")
         => /\ heap' = heap
            /\ cursor' = cursor
            /\ op'.err = "none"
            /\ op'.arg.ActiveBranch = Hash(heap[cursor])
            /\ DocSize(op'.arg.Contents) = Cardinality(Subtree(heap, ChatRoot))]_vars

RECURSIVE Corrupt(_)
\* some node of the document has a type that is neither root nor
\* message_pair, or a field json.Unmarshal rejects
Corrupt(doc) ==
    \/ doc.node_data.type \notin {"root", "message_pair"}
    \/ doc.node_data.type = "root"
         /\ Malformed \in {doc.node_data.temperature, doc.node_data.max_tokens}
    \/ doc.node_data.type = "message_pair" /\ doc.node_data.time = Malformed
    \/ \E k \in DOMAIN doc.children : Corrupt(doc.children[k])

\* C18: a restore from a document with a corrupt node, at whatever depth,
\* fails in unmarshalNode and builds nothing: the caller keeps the chat it
\* had
C18_CorruptNodeFailsWholeDecode ==
    [][(op'.name \in RestoreNames /\ Corrupt(op'.arg.Contents))
         => /\ op'.err = "failed to unmarshal snapshot"
            /\ unmarshalNode(op'.arg.Contents) = {}
            /\ heap' = heap
            /\ cursor' = cursor]_vars

\* a restore has failed on a document whose root and first level are
\* sound and whose corrupt node lies below them
C18_Witness ==
    /\ op.name \in RestoreNames
    /\ op.err = "failed to unmarshal snapshot"
    /\ op.arg.Contents.node_data.type = "root"
    /\ FieldsDecode(op.arg.Contents.node_data)
    /\ \E k \in DOMAIN op.arg.Contents.children :
          LET d == op.arg.Contents.children[k]
          IN /\ d.node_data.type = "message_pair"
             /\ FieldsDecode(d.node_data)
             /\ Corrupt(d)

\* C19: a message submitted while the chat is disabled returns before the
\* provider is asked and changes neither the cursor nor any node
C19_DisabledSubmitChangesNothing ==
    [][(op'.name = "SubmitMessage" /\ ~chatEnabled)
         => /\ op'.err = "disabled"
            /\ heap' = heap
            /\ cursor' = cursor
            /\ chatEnabled' = chatEnabled]_vars

\* a message has been submitted to a disabled chat whose cursor is on a
\* message pair
C19_Witness ==
    /\ op.name = "SubmitMessage" /\ op.err = "disabled"
    /\ ~chatEnabled
    /\ heap[cursor].Type = "message_pair"

\* C20: ListChildren() and HasParent() never fail and change neither the
\* cursor nor the tree; ListChildren returns the hashes of the children
\* of the cursor node in order (the empty list when it has none), and
\* HasParent returns whether the cursor node is a pair with a parent
\* (false at a root)
C20_QueriesAreReadOnly ==
    [][(op'.name \in {"ListChildren", "HasParent"})
         => /\ op'.err = "none"
            /\ heap' = heap
            /\ cursor' = cursor
            /\ (op'.name = "ListChildren")
                 => /\ op'.arg = ChildHashes(heap, cursor)
                    /\ (heap[cursor].Children = <<>>) => (op'.arg = <<>>)
            /\ (op'.name = "HasParent")
                 => /\ op'.arg = <<heap[cursor].Parent # 0>>
                    /\ (heap[cursor].Type = "root") => (op'.arg = <<FALSE>>)]_vars

\* ListChildren() has answered at a message pair that has a child
C20_Witness ==
    /\ op.name = "ListChildren" /\ op.err = "none"
    /\ heap[cursor].Type = "message_pair"
    /\ op.arg # <<>>

\* C21: Hash() of a MessagePairNode with only one of its two messages set
\* is the empty string; with both set it is not empty, and a call repeated
\* on a node whose fields have not changed returns what the call before
\* it returned
C21_HashEmptyUntilBothSet ==
    [][(op'.name = "Hash" /\ heap[op'.arg[1]].Type = "message_pair")
         => LET n == op'.arg[1]
                both == heap[n].User # <<>> /\ heap[n].Assistant # <<>>
            IN /\ heap' = heap
               /\ ~both => op'.arg[2] = <<>>
               /\ both => op'.arg[2] # <<>>
               /\ (op.name = "Hash" /\ op.arg[1] = n) => op'.arg[2] = op.arg[2]]_vars

\* Hash() has been called on a pair that has only its user message
C21_Witness ==
    /\ op.name = "Hash" /\ op.arg[2] = <<>>
    /\ heap[op.arg[1]].Type = "message_pair"
    /\ heap[op.arg[1]].User # <<>>
    /\ heap[op.arg[1]].Assistant = <<>>

\* Hash() has been called a second time in a row on a pair with both
\* messages
C21_WitnessRepeated ==
    /\ op.name = "Hash" /\ op.arg[3] = 2 /\ op.arg[2] # <<>>
    /\ heap[op.arg[1]].Type = "message_pair"

RECURSIVE WantedHistory(_, _)
\* the lines of the pairs from the root down to n, n included: for each
\* pair the user line, then the assistant line
WantedHistory(h, n) ==
    IF h[n].Type # "message_pair" THEN <<>>
    ELSE LET own == h[n].User \o h[n].Assistant
         IN (IF h[n].Parent # 0 THEN WantedHistory(h, h[n].Parent) ELSE <<>>)
               \o [i \in DOMAIN own |-> messageToString(own[i])]

\* C22: History() on a node returns the lines of every ancestor pair from
\* the root down, the user line before the assistant line, each pair
\* once, followed by the lines of the node itself when it is a pair
C22_HistoryEndsWithOwnPair ==
    [][(op'.name = "History") => op'.arg = WantedHistory(heap, cursor)]_vars

\* the complete pairs on the way from the root to n, n included
PathPairs(h, n) == {a \in Pairs(h) : n \in Subtree(h, a) /\ Complete(h[a])}

\* C23: the history handed to the provider for the cursor node holds the
\* two messages of every complete pair on the way from the root to the
\* cursor and nothing else, the messages of a pair before those of the
\* pairs below it
C23_HistoryRootToLeaf ==
    [][(op'.name \in {"SubmitMessage", "GetHistory"} /\ op'.err # "disabled")
         => LET hist == op'.history
                path == PathPairs(heap, cursor)
            IN /\ Len(hist) = 2 * Cardinality(path)
               /\ \E f \in Orders(path) :
                     /\ \A i, j \in DOMAIN f :
                           i < j => f[j] \in Subtree(heap, f[i])
                     /\ \A i \in DOMAIN f :
                           {hist[2 * i - 1], hist[2 * i]} =
                              {ProviderMessage(heap[f[i]].Assistant[1]),
                               ProviderMessage(heap[f[i]].User[1])}]_vars

\* a history of two pairs with different user messages has been collected
C23_Witness ==
    /\ op.name = "GetHistory"
    /\ Len(op.history) = 4
    /\ op.history[2].content # op.history[4].content

\* t holds no backtick
NoBacktick(t) == \A i \in DOMAIN t : t[i] # Backtick

\* the ways to read content as some text, a block indicator, an info
\* string of spaces only, the end of the line, a body and the closing
\* block indicator: <<end of the text, start of the body>>
BareBlocks(content) ==
    {<<a, b>> \in (0..Len(content)) \X (0..Len(content)) :
        /\ a + 4 <= b /\ b + 3 <= Len(content)
        /\ NoBacktick(Slice(content, 0, a))
        /\ Slice(content, a, a + 3) = <<Backtick, Backtick, Backtick>>
        /\ \A i \in (a + 4)..(b - 1) : content[i] = SP
        /\ content[b] = NL
        /\ NoBacktick(Slice(content, b, Len(content) - 3))
        /\ Slice(content, Len(content) - 3, Len(content)) = <<Backtick, Backtick, Backtick>>}

\* the message parsed is one fenced block with an empty info string,
\* behind some text or none
ParsedBareBlock(o) ==
    /\ o.name = "ParseArtifactsFrom"
    /\ o.arg # <<>>
    /\ B64Valid(o.arg[1].B64EncodedContent)
    /\ BareBlocks(B64Decode(o.arg[1].B64EncodedContent)) # {}

\* C30: a fenced block with an empty info string is returned by the
\* artifact parser as a FileArtifact with empty name and empty type
C30_EmptyInfoIsFileArtifact ==
    [][ParsedBareBlock(op')
         => /\ op'.err = "none"
            /\ op'.result # <<>>
            /\ LET a == op'.result[Len(op'.result)]
               IN /\ a.kind = "FileArtifact"
                  /\ a.Name = <<>>
                  /\ a.FileType = <<>>]_vars

\* C30 as amended: a fenced block with an empty info string is returned
\* by the artifact parser as a NonFileArtifact that holds the body of the
\* block, behind the artifact of the text in front of it, if any
C30_EmptyInfoIsNonFileArtifact ==
    [][ParsedBareBlock(op')
         => LET content == B64Decode(op'.arg[1].B64EncodedContent)
            IN \A ab \in BareBlocks(content) :
                  /\ op'.err = "none"
                  /\ op'.result =
                        TextArtifact(content, 0, ab[1])
                           \o <<[kind |-> "NonFileArtifact",
                                 Data |-> Slice(content, ab[2],
                                                Len(content) - 3)]>>]_vars

\* a block with an info string of one space and a body has been parsed
C30_Witness ==
    /\ ParsedBareBlock(op)
    /\ op.err = "none"
    /\ B64Decode(op.arg[1].B64EncodedContent) =
          <<Backtick, Backtick, Backtick, SP, NL, Letter, Backtick, Backtick, Backtick>>

\* the sessions that hold the chat instance i
Holders(i) == {s \in Sessions : proc[s].chat = i}

\* C24: a chat instance is the active chat of at most one session, so at
\* most one session at a time changes its tree and cursor
C24_OneSessionPerChat ==
    \A i \in DOMAIN instances :
        /\ Cardinality(Holders(i)) <= 1
        /\ Cardinality({s \in Holders(i) : proc[s].pc = "Ask"}) <= 1

\* C25: every step that reads or writes a map of the core holds the mutex
\* of that map
C25_MapsUnderMutex == [][op'.bare = {}]_vars

\* C26: while the provider call of a message submission is in progress the
\* session that waits for it holds no mutex of the core
C26_NoMutexAcrossProviderCall ==
    \A s \in Sessions : proc[s].pc = "Ask" => \A m \in Mutexes : mutex[m] # s

\* the provider call of one session is in progress while the other
\* session is inside NewChat with provMu
C26_Witness ==
    \E s, t \in Sessions :
        /\ proc[s].pc = "Ask"
        /\ proc[t].pc = "writeSnapshot"
        /\ mutex["provMu"] = t

\* the sessions whose \new-provider stored the provider name, or is about
\* to write it to the provider store
Creators(name) ==
    {s \in Sessions :
        \/ name \in proc[s].made
        \/ proc[s].pc = "addToProviderStore" /\ proc[s].stmt.name = name}

C28_NewChatKeepsStoredChat ==
    [][\A s \in Sessions :
          (/\ proc[s].pc = "writeSnapshot"
           /\ proc'[s] # proc[s]
           /\ proc[s].stmt.name \in DOMAIN chatStore)
             => /\ op'.err = "already exists"
                /\ chatStore' = chatStore]_vars

\* C29: when \chat name :hash h has ended without error the cursor of the
\* instance handed to the session is on the node with hash h
C29_ChatHashSetsCursor ==
    (/\ op.name = "loadChat"
     /\ op.done
     /\ op.err = "none"
     /\ op.stmt.hash # <<>>)
       => LET chat == instances[op.chat]
              nodeMap == MapTree(chat.heap, ChatRoot)
          IN /\ op.stmt.hash[1] \in DOMAIN nodeMap
             /\ chat.cursor = nodeMap[op.stmt.hash[1]]

RECURSIVE OpenFence(_, _, _)
\* a fence of content is open at its end, read from byte i on in mode
\* "text", "info" (the line of the opening fence) or "body"
OpenFence(content, i, mode) ==
    LET fence == /\ i + 2 <= Len(content)
                 /\ SubSeq(content, i, i + 2) = <<Backtick, Backtick, Backtick>>
    IN IF i > Len(content) THEN mode # "text"
       ELSE IF mode = "info"
       THEN OpenFence(content, i + 1, IF content[i] = NL THEN "body" ELSE "info")
       ELSE IF fence
       THEN OpenFence(content, i + 3, IF mode = "text" THEN "info" ELSE "text")
       ELSE OpenFence(content, i + 1, mode)

\* the call has parsed the content of a message
ParsedContent ==
    /\ op.name = "ParseArtifactsFrom"
    /\ op.arg # <<>>
    /\ B64Valid(op.arg[1].B64EncodedContent)

\* C31: a content with a fence that is opened and not closed is parsed with
\* an error and without any artifact
C31_OpenFenceFailsWholeParse ==
    (ParsedContent /\ OpenFence(UnencodedContent(op.arg[1]), 1, "text"))
        => op.err # "none" /\ op.result = <<>>

\* a closed block with the content "a" is followed by a fence that is not
\* closed, and nothing is returned
C31_Witness ==
    /\ ParsedContent
    /\ UnencodedContent(op.arg[1]) =
          <<Backtick, Backtick, Backtick, NL, Letter,
            Backtick, Backtick, Backtick, Backtick, Backtick, Backtick>>
    /\ op.err = "no EOL found"
    /\ op.result = <<>>

\* C32: the document of Snapshot() holds every message pair that a
\* submission has completed
C32_SnapshotHoldsSubmittedPairs ==
    (op.name = "Snapshot")
        => \A n \in Pairs(heap) :
              Complete(heap[n]) => Hash(heap[n]) \in DocHashes(op.arg.Contents)

\* the node Parent() puts the cursor on when the cursor is on c
AfterParent(h, c) ==
    IF h[c].Type = "message_pair" /\ h[c].Parent # 0 THEN h[c].Parent ELSE c

\* C33: Child(i) has moved the cursor from a node to its i-th child, from
\* which Parent() leads back to that very node
C33_ChildThenParentReturns ==
    [][(op'.name = "Child" /\ op'.err = "none")
         => /\ cursor' = heap[cursor].Children[op'.arg[1] + 1]
            /\ AfterParent(heap', cursor') = cursor]_vars

\* C34: the hash of the node under the cursor is never the empty string
C34_CursorHashNotEmpty == Hash(heap[cursor]) # <<>>

\* C35: the instance a \chat statement has handed to a session is the one
\* registered in activeChats
C35_LoadedInstanceIsRegistered ==
    \A s \in Sessions :
        proc[s].chat # 0 => \E name \in DOMAIN activeChats :
                               activeChats[name] = proc[s].chat

\* the chat name is active: it is in activeChats or it is the active chat
\* of a session
IsActiveChat(name) ==
    \/ name \in DOMAIN activeChats
    \/ \E t \in DOMAIN sessions : sessions[t].activeChatId = name

\* C36: a chat is never deleted from the store while it is active: the
\* step that removes the file of a chat finds the chat neither in
\* activeChats nor as the active chat of a session
C36_ActiveChatNotDeleted ==
    [][\A n \in DOMAIN chatStore \ DOMAIN chatStore' : ~IsActiveChat(n)]_vars

\* C37: a provider named by a stored chat snapshot is never deleted and a
\* base provider is never deleted: every stored chat's provider and every
\* base provider is registered in the providers of the core
C37_StoredChatProviderRegistered ==
    /\ \A f \in DOMAIN chatStore : chatStore[f].ProviderName \in DOMAIN providers
    /\ \A n \in DOMAIN baseProvidersMap : n \in DOMAIN providers

\* \del-provider p has been refused because a stored chat names p, in a
\* core whose base providers are a map of their own
C37_Witness ==
    /\ op.name = "onDeleteProvider"
    /\ op.err = "in use"
    /\ ~baseProviders.shared
    /\ \E f \in DOMAIN chatStore : chatStore[f].ProviderName = op.stmt.name
    /\ op.stmt.name \in DOMAIN providers

\* the mutexes session s holds
Held(s) == {m \in Mutexes : mutex[m] = s}

\* the mutex the next step of a goroutine at pc locks, "none" when it
\* locks none
Wanted(pc) ==
    CASE pc \in {"idle", "del-chat"} -> "sesMu"
      [] pc \in {"new-provider", "AddProvider", "new-chat", "del-provider"} -> "provMu"
      [] pc \in {"chat", "activeChats", "deleteChat.activeChats"} -> "chatMu"
      [] pc \in {"new-ctx", "del-ctx", "deleteContext.delete"} -> "ctxMu"
      [] OTHER -> "none"

\* C38: no registry operation locks a mutex of the core while it holds
\* that mutex or another one, and every statement that was started
\* returns
C38_NoNestedLockAndReturns ==
    /\ [](\A s \in Sessions : Held(s) # {} => Wanted(proc[s].pc) = "none")
    /\ \A s \in Sessions : (proc[s].pc # "idle") ~> (proc[s].pc = "idle")

\* one session holds provMu in NewChat while the other waits for it in
\* onDeleteProvider
C38_Witness ==
    \E s, t \in Sessions :
       /\ mutex["provMu"] = s
       /\ proc[s].pc = "writeSnapshot"
       /\ proc[t].pc = "del-provider"

\* C39: in the history handed to the provider the user message of each
\* exchange comes right before its assistant reply: the roles alternate
\* user, assistant, user, assistant, ... starting with user
C39_HistoryRolesAlternate ==
    [][(op'.name \in {"SubmitMessage", "GetHistory"} /\ op'.err # "disabled")
         => \A i \in DOMAIN op'.history :
               op'.history[i].role = IF i % 2 = 1 THEN "user" ELSE "assistant"]_vars

\* C40: every provider a \new-provider statement has created has a
\* positive maxTokens that does not exceed that of its base provider, and
\* a temperature in (0, 1]
C40_CreatedProviderInRange ==
    \A n \in DOMAIN providers \ {BaseProvider.Name} :
       /\ providers[n].MaxTokens > 0
       /\ providers[n].MaxTokens <= providers[providers[n].Host].MaxTokens
       /\ providers[n].Temperature > 0
       /\ providers[n].Temperature <= 10

====
